---- MODULE Spec2Model ----
(***************************************************************************)
(* Model of the workout planning engine (backend/workout_engine.py), its   *)
(* plan repository (backend/database.py) and its data model                *)
(* (backend/models.py).                                                    *)
(*                                                                         *)
(* Seven specifications share the variables:                               *)
(*   Spec      - the public API of WorkoutEngine (generate_plan,           *)
(*               adapt_plan) against the repository;                       *)
(*   SpecGraph - runs of the compiled generation graph                     *)
(*               profile_intake -> plan_generation -> plan_validation;     *)
(*   SpecRepair - the validator / repairer applied twice to a plan;        *)
(*   SpecAdapt - the adaptation stages feedback_analysis ->                *)
(*               metrics_calculation -> adaptation_decision ->             *)
(*               rationale_generation, called in that order on one state;  *)
(*   SpecStore - generate_plan, adapt_plan, log_workout and get_plan over  *)
(*               a store of two users;                                     *)
(*   SpecConc  - two generate_plan or adapt_plan calls interleaved at      *)
(*               their awaits;                                             *)
(*   SpecQueries - get_current_plan and get_week_logs over the store of    *)
(*               two users.                                                *)
(* Repository operations are taken to succeed; the generative model is an  *)
(* arbitrary reply drawn from LLMReplies.                                  *)
(***************************************************************************)
EXTENDS Integers, Sequences, FiniteSets, TLC

VARIABLES
    users,          \* table users: user_id -> UserProfile or Nil
    workout_plans,  \* table workout_plans: plan_id -> WorkoutPlan
    workout_logs,   \* table workout_logs: the rows, in insertion order
    uuid_counter,   \* number of uuid4() plan ids handed out so far
    clock,          \* datetime.utcnow(), advanced at every plan construction
    llm_calls,      \* model invocations made by the current operation / run
    last,           \* outcome of the most recent public API call
    calls,          \* log of the successful generate_plan calls (SpecAdapt:
                    \* of the model calls of the stages)
    state,          \* the WorkoutState threaded through the graph
    pc,             \* position of the graph run
    trace           \* stages the graph run has executed, in order

vars == <<users, workout_plans, workout_logs, uuid_counter, clock, llm_calls, last, calls,
          state, pc, trace>>

-----------------------------------------------------------------------------
(* Bounds of the model *)

MaxPlans == 2
MaxWeek == 1

-----------------------------------------------------------------------------
(* Data model (models.py) *)

\* Python's None for optional records, and for optional strings
Nil == [nil |-> TRUE]
NoneStr == "None"

Users == {"u1", "u2"}

WorkoutDay == {"monday", "tuesday", "wednesday", "thursday", "friday"}

WeekdayOrder == <<"monday", "tuesday", "wednesday", "thursday", "friday">>

PlannedExercise(id, name, sets, reps, rest, rpe, notes) ==
    [exercise_id |-> id, exercise_name |-> name, sets |-> sets, reps |-> reps,
     rest_seconds |-> rest, target_rpe |-> rpe, notes |-> notes]

DayPlan(day, focus, exercises, duration) ==
    [day |-> day, focus |-> focus, exercises |-> exercises,
     estimated_duration |-> duration]

WorkoutPlan(plan_id, user_id, week_number, days, rationale, created_at) ==
    [plan_id |-> plan_id, user_id |-> user_id, week_number |-> week_number,
     created_at |-> created_at, days |-> days,
     adaptation_rationale |-> rationale]

UserProfile(user_id, experience_level, equipment, session_duration) ==
    [user_id |-> user_id, experience_level |-> experience_level,
     equipment |-> equipment,
     schedule |-> [session_duration |-> session_duration]]

\* the profiles the model stores: main.py's sample equipment at the default
\* session length, and a bodyweight-only profile at the shortest session
ProfileChoices(u) ==
    { UserProfile(u, "intermediate", {"dumbbells", "resistance_bands"}, 45),
      UserProfile(u, "beginner", {"bodyweight"}, 15) }

\* WorkoutState.feedback_analysis, a dict: raw_feedback = NoneStr and
\* has_insights = FALSE stand for an absent key
FeedbackAnalysis(raw_feedback, has_insights, insights) ==
    [raw_feedback |-> raw_feedback, has_insights |-> has_insights,
     insights |-> insights]

\* WorkoutState.adaptation_context, a dict: decided = FALSE when the keys
\* "adaptations" and "reasoning" are absent, rationale = NoneStr when the key
\* "rationale" is
AdaptationContext(decided, adaptations, reasoning, rationale) ==
    [decided |-> decided, adaptations |-> adaptations,
     reasoning |-> reasoning, rationale |-> rationale]

WorkoutState(profile, week) ==
    [user_profile |-> profile, current_week |-> week, plan_history |-> <<>>,
     current_plan |-> Nil, logs |-> <<>>,
     feedback_analysis |-> FeedbackAnalysis(NoneStr, FALSE, Nil),
     metrics |-> Nil,
     adaptation_context |-> AdaptationContext(FALSE, <<>>, Nil, NoneStr),
     workflow_stage |-> "plan_generation", error_context |-> NoneStr]

-----------------------------------------------------------------------------
(* The generative model boundary: self.llm.ainvoke(...) either raises or   *)
(* returns text.  A text is described by what the parsers read of it:      *)
(* find('{'), rfind('}') + 1, and what json.loads makes of the slice       *)
(* between them when that slice is brace-delimited.                        *)

ModelExercise ==
    PlannedExercise("push_ups_standard", "Standard Push-ups", 3, "8-12", 60, 7,
                    "Focus on controlled movement and full range of motion")

ModelDay(day) == DayPlan(day, "upper_body_strength", <<ModelExercise>>, 45)

DayNoExercises == DayPlan("tuesday", "lower_body_strength", <<>>, 30)

DayLong == DayPlan("wednesday", "cardio", <<ModelExercise>>, 90)

\* "saturday" is no WorkoutDay: DayPlan.model_validate rejects it
DayNotAWeekday == DayPlan("saturday", "rest", <<ModelExercise>>, 45)

FiveDayReply == [i \in 1..5 |-> ModelDay(WeekdayOrder[i])]

DayLists ==
    { <<>>, <<ModelDay("monday")>>, <<DayNoExercises>>, <<DayNotAWeekday>>,
      <<ModelDay("monday"), DayLong>>, FiveDayReply }

\* json.loads result: well_formed = FALSE is a JSONDecodeError
\* days_kind: the "days" key is missing, null, a non-list scalar, or a list;
\* rationale = Nil: no "rationale" key
JsonObject(days_kind, days) ==
    [well_formed |-> TRUE, days_kind |-> days_kind, days |-> days,
     rationale |-> Nil]

NotJson ==
    [well_formed |-> FALSE, days_kind |-> "missing", days |-> <<>>,
     rationale |-> Nil]

Reply(raises, start, end, json) ==
    [raises |-> raises, start |-> start, end |-> end, json |-> json]

\* a text the parsers can make no JSON object of
is_unparseable(response) ==
    /\ ~response.raises
    /\ \/ response.start < 0 \/ response.end <= response.start
       \/ ~response.json.well_formed

LLMReplies ==
    { Reply(TRUE, -1, 0, NotJson),        \* the call raises
      Reply(FALSE, -1, 0, NotJson),       \* text without braces
      Reply(FALSE, -1, 3, NotJson),       \* only a closing brace
      Reply(FALSE, 4, 2, NotJson),        \* closing brace before opening one
      Reply(FALSE, 0, 9, NotJson),        \* braces around malformed JSON
      Reply(FALSE, 2, 9, JsonObject("missing", <<>>)),  \* no "days" key
      Reply(FALSE, 0, 9, JsonObject("null", <<>>)),     \* "days": null
      Reply(FALSE, 0, 9, JsonObject("scalar", <<>>)) }  \* "days": 5
    \cup { Reply(FALSE, 0, 9, JsonObject("list", d)) : d \in DayLists }

-----------------------------------------------------------------------------
(* Parsing of the model's reply *)

\* response[start:end] starts with '{' and ends with '}' only when both
\* braces were found and the first '{' precedes the last '}'; any other
\* slice is empty or a lone '}', which json.loads rejects
json_loads_ok(response) ==
    /\ response.start >= 0
    /\ response.end > response.start
    /\ response.json.well_formed

PlanData(days_kind, days, rationale) ==
    [days_kind |-> days_kind, days |-> days, rationale |-> rationale]

\* "not data['days']": None, an empty list (a scalar such as 5 is truthy)
days_falsy(json) ==
    \/ json.days_kind = "null"
    \/ json.days_kind = "list" /\ json.days = <<>>

ParseFallbackDay(notes) ==
    DayPlan("monday", "upper_body",
            <<PlannedExercise("push_ups", "Push-ups", 3, "8-12", 60, 7, notes)>>,
            30)

\* parse_ai_response with a fallback that carries the parse error's message
\* in its notes: "No JSON found" and a JSON decode error then give
\* different fallbacks
parse_ai_response_error_notes(response) ==
    IF response.start = -1 \/ response.end = 0
    THEN PlanData("list", <<ParseFallbackDay("No JSON found in response")>>,
                  [text |-> "Fallback plan due to AI parsing error"])
    ELSE IF \/ ~json_loads_ok(response)
            \/ response.json.days_kind = "missing"
            \/ days_falsy(response.json)
    THEN PlanData("list",
                  <<ParseFallbackDay("AI generation failed, using fallback")>>,
                  [text |-> "Fallback plan due to AI parsing error"])
    ELSE PlanData(response.json.days_kind, response.json.days,
                  response.json.rationale)

\* WorkoutEngine._parse_ai_response
parse_ai_response(response) ==
    IF \/ response.start = -1 \/ response.end = 0          \* "No JSON found"
       \/ ~json_loads_ok(response)                         \* JSONDecodeError
       \/ response.json.days_kind = "missing"              \* "Invalid plan
       \/ days_falsy(response.json)                        \*  structure"
    THEN PlanData("list",
                  <<ParseFallbackDay("AI generation failed, using fallback")>>,
                  [text |-> "Fallback plan due to AI parsing error"])
    ELSE PlanData(response.json.days_kind, response.json.days,
                  response.json.rationale)

\* WorkoutEngine._parse_plan_response: no structural check, bare except
parse_plan_response(response) ==
    IF ~json_loads_ok(response)
    THEN PlanData("list", <<ParseFallbackDay("Focus on form")>>, Nil)
    ELSE PlanData(response.json.days_kind, response.json.days,
                  response.json.rationale)

\* pydantic accepts a day dict iff its tag is a WorkoutDay and every
\* exercise's target_rpe is within Field(ge=1, le=10)
day_is_valid(d) ==
    /\ d.day \in WorkoutDay
    /\ \A i \in DOMAIN d.exercises : d.exercises[i].target_rpe \in 1..10

\* DayPlan.model_validate: builds the DayPlan from the dict's fields
model_validate(d) ==
    DayPlan(d.day, d.focus,
            [i \in DOMAIN d.exercises |->
                PlannedExercise(d.exercises[i].exercise_id,
                                d.exercises[i].exercise_name,
                                d.exercises[i].sets, d.exercises[i].reps,
                                d.exercises[i].rest_seconds,
                                d.exercises[i].target_rpe,
                                d.exercises[i].notes)],
            d.estimated_duration)

\* the day list of a parsed payload can be turned into DayPlans
days_validate(plan_data) ==
    /\ plan_data.days_kind = "list"
    /\ \A i \in DOMAIN plan_data.days : day_is_valid(plan_data.days[i])

-----------------------------------------------------------------------------
(* Plan builders *)

\* WorkoutEngine._create_simple_plan: the hand-authored five-day template
simple_plan_days(profile) ==
    << DayPlan("monday", "upper_body",
         << PlannedExercise("push_ups", "Push-ups", 3, "8-15", 60, 7,
                            "Modify on knees if needed"),
            PlannedExercise("dumbbell_rows",
                            IF "dumbbells" \in profile.equipment
                            THEN "Dumbbell Rows" ELSE "Resistance Band Rows",
                            3, "10-12", 90, 7,
                            "Keep back straight, squeeze shoulder blades"),
            PlannedExercise("planks", "Plank Hold", 3, "30-60 seconds", 60, 6,
                            "Keep straight body line") >>, 40),
       DayPlan("tuesday", "lower_body",
         << PlannedExercise("squats", "Bodyweight Squats", 3, "12-20", 60, 7,
                            "Full depth, weight in heels"),
            PlannedExercise("lunges", "Forward Lunges", 3, "10 each leg", 60, 7,
                            "Keep front knee over ankle") >>, 35),
       DayPlan("wednesday", "cardio",
         << PlannedExercise("jumping_jacks", "Jumping Jacks", 4, "30 seconds",
                            30, 8, "High intensity intervals"),
            PlannedExercise("mountain_climbers", "Mountain Climbers", 3,
                            "20 seconds", 40, 7, "Keep hips level") >>, 25),
       DayPlan("thursday", "upper_body",
         << PlannedExercise("push_ups", "Push-ups (Different Variation)", 3,
                            "10-18", 60, 8, "Try diamond or wide variations"),
            PlannedExercise("tricep_dips", "Tricep Dips", 3, "8-12", 60, 7,
                            "Use chair or bench") >>, 30),
       DayPlan("friday", "full_body",
         << PlannedExercise("burpees", "Modified Burpees", 3, "5-10", 90, 8,
                            "Step back instead of jumping if needed"),
            PlannedExercise("squats", "Bodyweight Squats", 2, "15", 45, 6,
                            "Focus on form"),
            PlannedExercise("push_ups", "Push-ups", 2, "8-12", 45, 6,
                            "End the week strong!") >>, 35) >>

create_simple_plan(profile, week_number, plan_id, now) ==
    WorkoutPlan(plan_id, profile.user_id, week_number,
                simple_plan_days(profile),
                [text |-> "Week plan customized for level with equipment",
                 week |-> week_number, level |-> profile.experience_level,
                 equipment |-> profile.equipment],
                now)

\* a fallback plan without a day
create_fallback_plan_empty(profile, week_number, plan_id, now) ==
    WorkoutPlan(plan_id, profile.user_id, week_number, <<>>,
                [text |-> "Fallback plan due to AI generation issue"],
                now)

\* WorkoutEngine._create_fallback_plan (profile is not None)
create_fallback_plan(profile, week_number, plan_id, now) ==
    WorkoutPlan(plan_id, profile.user_id, week_number,
                << DayPlan("monday", "full_body",
                     << PlannedExercise("push_ups", "Push-ups", 3, "8-12", 60,
                                        7, NoneStr) >>, 30) >>,
                [text |-> "Fallback plan due to AI generation issue"],
                now)

-----------------------------------------------------------------------------
(* Plan validator / repairer *)

TimeTolerance == 15

Finding(kind, day) == [kind |-> kind, day |-> day]

\* day_findings with the time test written >= instead of >
day_findings_inclusive(day, profile) ==
    (IF day.estimated_duration >=
            profile.schedule.session_duration + TimeTolerance
     THEN <<Finding("exceeds time limit", day.day)>> ELSE <<>>)
    \o (IF day.exercises = <<>>
        THEN <<Finding("has no exercises", day.day)>> ELSE <<>>)

\* the findings of one day, in the order the loop body appends them
day_findings(day, profile) ==
    (IF day.estimated_duration >
            profile.schedule.session_duration + TimeTolerance
     THEN <<Finding("exceeds time limit", day.day)>> ELSE <<>>)
    \o (IF day.exercises = <<>>
        THEN <<Finding("has no exercises", day.day)>> ELSE <<>>)

RECURSIVE days_findings(_, _)
days_findings(days, profile) ==
    IF days = <<>> THEN <<>>
    ELSE day_findings(Head(days), profile)
         \o days_findings(Tail(days), profile)

\* WorkoutEngine._validate_plan_structure raises AttributeError on a missing
\* plan, and on a missing profile as soon as the loop reads its schedule
validate_raises(plan, profile) ==
    \/ plan = Nil
    \/ profile = Nil /\ plan.days # <<>>

\* WorkoutEngine._validate_plan_structure (when it does not raise)
validate_plan_structure(plan, profile) ==
    (IF plan.days = <<>>
     THEN <<Finding("No workout days defined", NoneStr)>> ELSE <<>>)
    \o days_findings(plan.days, profile)

PlaceholderExercise ==
    PlannedExercise("push_ups", "Push-ups", 2, "5-10", 60, 6, NoneStr)

\* fix_plan_issues that repairs nothing
fix_plan_issues_no_repair(plan, errors, profile) == plan

\* fix_plan_issues that tops every thin day up with the placeholder
fix_plan_issues_padding(plan, errors, profile) ==
    [plan EXCEPT !.days =
        [i \in DOMAIN plan.days |->
            IF Len(plan.days[i].exercises) < 2
            THEN [plan.days[i] EXCEPT
                    !.exercises = Append(@, PlaceholderExercise)]
            ELSE plan.days[i]]]

\* fix_plan_issues that also cuts an over-long day down to the time budget
fix_plan_issues_clamping(plan, errors, profile) ==
    [plan EXCEPT !.days =
        [i \in DOMAIN plan.days |->
            [plan.days[i] EXCEPT
                !.exercises = IF @ = <<>> THEN <<PlaceholderExercise>> ELSE @,
                !.estimated_duration =
                    IF @ > profile.schedule.session_duration + TimeTolerance
                    THEN profile.schedule.session_duration ELSE @]]]

\* WorkoutEngine._fix_plan_issues
fix_plan_issues(plan, errors, profile) ==
    [plan EXCEPT !.days =
        [i \in DOMAIN plan.days |->
            IF plan.days[i].exercises = <<>>
            THEN [plan.days[i] EXCEPT !.exercises = <<PlaceholderExercise>>]
            ELSE plan.days[i]]]

-----------------------------------------------------------------------------
(* Plan repository (database.py) *)

\* DatabaseManager.get_user_profile
get_user_profile(user_id) == users[user_id]

\* save_workout_plan that writes the table anew with the one plan
save_workout_plan_overwriting(table, plan) ==
    (plan.plan_id :>
        [plan_id |-> plan.plan_id, user_id |-> plan.user_id,
         week_number |-> plan.week_number, days |-> plan.days,
         adaptation_rationale |-> plan.adaptation_rationale,
         created_at |-> plan.created_at])

\* save_workout_plan that keeps one plan per user and week
save_workout_plan_per_week(table, plan) ==
    LET kept == { id \in DOMAIN table :
                    ~(/\ table[id].user_id = plan.user_id
                      /\ table[id].week_number = plan.week_number) }
    IN (plan.plan_id :>
           [plan_id |-> plan.plan_id, user_id |-> plan.user_id,
            week_number |-> plan.week_number, days |-> plan.days,
            adaptation_rationale |-> plan.adaptation_rationale,
            created_at |-> plan.created_at]) @@ [id \in kept |-> table[id]]

\* save_workout_plan that stamps the row with the time of the save
save_workout_plan_stamping(table, plan) ==
    (plan.plan_id :>
        [plan_id |-> plan.plan_id, user_id |-> plan.user_id,
         week_number |-> plan.week_number, days |-> plan.days,
         adaptation_rationale |-> plan.adaptation_rationale,
         created_at |-> clock]) @@ table

\* DatabaseManager.save_workout_plan: INSERT OR REPLACE of the six columns
save_workout_plan(table, plan) ==
    (plan.plan_id :>
        [plan_id |-> plan.plan_id, user_id |-> plan.user_id,
         week_number |-> plan.week_number, days |-> plan.days,
         adaptation_rationale |-> plan.adaptation_rationale,
         created_at |-> plan.created_at]) @@ table

\* DatabaseManager.get_workout_plan
get_workout_plan(plan_id) ==
    IF plan_id \in DOMAIN workout_plans
    THEN LET row == workout_plans[plan_id] IN
         WorkoutPlan(row.plan_id, row.user_id, row.week_number, row.days,
                     row.adaptation_rationale, row.created_at)
    ELSE Nil

-----------------------------------------------------------------------------
(* Public API of WorkoutEngine *)

\* WorkoutEngine._generate_ai_plan: one model call, then parse and build;
\* raised = an exception leaves the method
generate_ai_plan(profile, week_number, response, plan_id, now) ==
    IF response.raises
    THEN [raised |-> TRUE, plan |-> Nil]
    ELSE LET plan_data == parse_ai_response(response) IN
         IF ~days_validate(plan_data)
         THEN [raised |-> TRUE, plan |-> Nil]
         ELSE [raised |-> FALSE,
               plan |-> WorkoutPlan(plan_id, profile.user_id, week_number,
                            [i \in DOMAIN plan_data.days |->
                                model_validate(plan_data.days[i])],
                            IF plan_data.rationale = Nil
                            THEN [text |-> "AI-generated plan for week",
                                  week |-> week_number]
                            ELSE plan_data.rationale,
                            now)]

\* generate_plan without the try/except around _generate_ai_plan
generate_plan_uncaught(profile, week_number, response, plan_id, now) ==
    IF profile = Nil
    THEN [error |-> "User profile not found", plan |-> Nil, llm_calls |-> 0]
    ELSE LET ai == generate_ai_plan(profile, week_number, response, plan_id,
                                    now) IN
         IF ai.raised
         THEN [error |-> "AI generation failed", plan |-> Nil, llm_calls |-> 1]
         ELSE [error |-> NoneStr, plan |-> ai.plan, llm_calls |-> 1]

\* generate_plan that tests the profile only after the model call
generate_plan_late_check(profile, week_number, response, plan_id, now) ==
    IF profile = Nil
    THEN [error |-> "User profile not found", plan |-> Nil, llm_calls |-> 1]
    ELSE LET ai == generate_ai_plan(profile, week_number, response, plan_id,
                                    now) IN
         [error |-> NoneStr,
          plan |-> IF ai.raised
                   THEN create_simple_plan(profile, week_number, plan_id, now)
                   ELSE ai.plan,
          llm_calls |-> 1]

\* WorkoutEngine.generate_plan: what it raises, the plan it saves and
\* returns, and the model calls it makes
generate_plan(profile, week_number, response, plan_id, now) ==
    IF profile = Nil
    THEN [error |-> "User profile not found", plan |-> Nil, llm_calls |-> 0]
    ELSE LET ai == generate_ai_plan(profile, week_number, response, plan_id,
                                    now) IN
         [error |-> NoneStr,
          plan |-> IF ai.raised
                   THEN create_simple_plan(profile, week_number, plan_id, now)
                   ELSE ai.plan,
          llm_calls |-> 1]

CallRecord(op, user_id, week_number, response, profile, result, reply) ==
    [op |-> op, user_id |-> user_id, week_number |-> week_number,
     response |-> response, profile |-> profile, error |-> result.error,
     plan |-> result.plan, reply |-> reply]

\* the effect on the repository and the call log of a generate_plan result
Commit(result, response, profile) ==
    IF result.error # NoneStr
    THEN UNCHANGED <<workout_plans, uuid_counter, clock, calls>>
    ELSE /\ workout_plans' = save_workout_plan(workout_plans, result.plan)
         /\ uuid_counter' = uuid_counter + 1
         /\ clock' = clock + 1
         /\ calls' = Append(calls,
                [profile |-> profile,
                 week_number |-> result.plan.week_number,
                 unparseable |-> is_unparseable(response),
                 plan_id |-> result.plan.plan_id])

\* POST /api/plans/generate -> WorkoutEngine.generate_plan(user_id, week)
GeneratePlan(user_id, week_number, response) ==
    LET profile == get_user_profile(user_id)
        result == generate_plan(profile, week_number, response,
                                uuid_counter + 1, clock)
    IN /\ pc = "idle"
       /\ profile = Nil \/ uuid_counter < MaxPlans
       /\ response = Nil <=> profile = Nil     \* no profile, no model call
       /\ Commit(result, response, profile)
       /\ llm_calls' = result.llm_calls
       /\ last' = CallRecord("generate_plan", user_id, week_number, response,
                             profile, result, Nil)
       /\ UNCHANGED <<users, workout_logs, state, pc, trace>>

\* WorkoutEngine.adapt_plan(user_id, week): loads profile and logs, builds a
\* WorkoutState it does not use, and generates the plan of week + 1
AdaptPlan(user_id, week_number, response) ==
    LET profile == get_user_profile(user_id)
        result == generate_plan(profile, week_number + 1, response,
                                uuid_counter + 1, clock)
    IN /\ pc = "idle"
       /\ profile = Nil \/ uuid_counter < MaxPlans
       /\ response = Nil <=> profile = Nil     \* no profile, no model call
       /\ Commit(result, response, profile)
       /\ llm_calls' = result.llm_calls
       /\ last' = CallRecord("adapt_plan", user_id, week_number, response,
                     profile, result,
                     IF result.error # NoneStr THEN Nil
                     ELSE [rationale |->
                             "Plan adapted based on your progress and feedback",
                           next_plan_id |-> result.plan.plan_id,
                           key_changes |-> <<"Increased intensity",
                                             "Added new exercises">>])
       /\ UNCHANGED <<users, workout_logs, state, pc, trace>>

-----------------------------------------------------------------------------
(* Specification of the public API *)

Weeks == 1..MaxWeek

\* the users table after one profile was saved, as in test_api.py
StoredProfiles ==
    { [u \in Users |-> IF u = "u1" THEN p ELSE Nil] : p \in ProfileChoices("u1") }

Init ==
    /\ users \in StoredProfiles
    /\ workout_plans = <<>>
    /\ workout_logs = <<>>
    /\ uuid_counter = 0
    /\ clock = 0
    /\ llm_calls = 0
    /\ last = [op |-> "none"]
    /\ calls = <<>>
    /\ state = WorkoutState(Nil, 1)
    /\ pc = "idle"
    /\ trace = <<>>

Next ==
    \/ \E u \in Users, w \in Weeks, r \in LLMReplies \cup {Nil} :
          GeneratePlan(u, w, r)
    \/ \E u \in Users, w \in Weeks, r \in LLMReplies \cup {Nil} :
          AdaptPlan(u, w, r)

Spec == Init /\ [][Next]_vars

-----------------------------------------------------------------------------
(* Stages of the generation graph.  Each operator gives the state the      *)
(* stage leaves, whether an exception left the stage (raised), and what    *)
(* the stage did to the outside.                                           *)

\* WorkoutEngine._profile_intake_node
profile_intake_node(st) ==
    IF st.user_profile = Nil
    THEN \* state.user_profile.user_id: AttributeError, caught
         [state |-> [st EXCEPT !.error_context = "Profile intake error"],
          raised |-> FALSE]
    ELSE LET profile == get_user_profile(st.user_profile.user_id) IN
         IF profile # Nil
         THEN [state |-> [st EXCEPT !.user_profile = profile,
                                    !.workflow_stage = "profile_complete"],
               raised |-> FALSE]
         ELSE [state |-> [st EXCEPT !.error_context = "Profile not found"],
               raised |-> FALSE]

\* the try block of _plan_generation_node builds a plan from the reply
generation_try_fails(response) ==
    \/ response.raises                                   \* ainvoke raises
    \/ parse_plan_response(response).days_kind = "missing"         \* KeyError
    \/ ~days_validate(parse_plan_response(response))     \* ValidationError

\* plan_generation_node that asks the model once more after a failed try
plan_generation_node_retrying(st, response, plan_id, now) ==
    IF st.user_profile = Nil
    THEN \* the prompt builder raises before the model call; the handler's
         \* _create_fallback_plan reads profile.user_id and raises again
         [state |-> [st EXCEPT !.error_context = "Plan generation error"],
          raised |-> TRUE, llm_calls |-> 0]
    ELSE IF generation_try_fails(response)
    THEN [state |-> [st EXCEPT
                       !.error_context = "Plan generation error",
                       !.current_plan =
                           create_fallback_plan(st.user_profile,
                                                st.current_week, plan_id, now)],
          raised |-> FALSE, llm_calls |-> 2]
    ELSE LET plan_data == parse_plan_response(response) IN
         [state |-> [st EXCEPT
                       !.current_plan =
                           WorkoutPlan(plan_id, st.user_profile.user_id,
                               st.current_week,
                               [i \in DOMAIN plan_data.days |->
                                   model_validate(plan_data.days[i])],
                               IF plan_data.rationale = Nil
                               THEN [text |-> "Initial plan generation"]
                               ELSE plan_data.rationale,
                               now),
                       !.workflow_stage = "plan_generated"],
          raised |-> FALSE, llm_calls |-> 1]

\* plan_generation_node that tags the state although the try failed
plan_generation_node_tagging(st, response, plan_id, now) ==
    IF st.user_profile = Nil
    THEN [state |-> [st EXCEPT !.error_context = "Plan generation error"],
          raised |-> TRUE, llm_calls |-> 0]
    ELSE IF generation_try_fails(response)
    THEN [state |-> [st EXCEPT
                       !.error_context = "Plan generation error",
                       !.current_plan =
                           create_fallback_plan(st.user_profile,
                                                st.current_week, plan_id, now),
                       !.workflow_stage = "plan_generated"],
          raised |-> FALSE, llm_calls |-> 1]
    ELSE LET plan_data == parse_plan_response(response) IN
         [state |-> [st EXCEPT
                       !.current_plan =
                           WorkoutPlan(plan_id, st.user_profile.user_id,
                               st.current_week,
                               [i \in DOMAIN plan_data.days |->
                                   model_validate(plan_data.days[i])],
                               IF plan_data.rationale = Nil
                               THEN [text |-> "Initial plan generation"]
                               ELSE plan_data.rationale,
                               now),
                       !.workflow_stage = "plan_generated"],
          raised |-> FALSE, llm_calls |-> 1]

\* WorkoutEngine._plan_generation_node
plan_generation_node(st, response, plan_id, now) ==
    IF st.user_profile = Nil
    THEN \* the prompt builder raises before the model call; the handler's
         \* _create_fallback_plan reads profile.user_id and raises again
         [state |-> [st EXCEPT !.error_context = "Plan generation error"],
          raised |-> TRUE, llm_calls |-> 0]
    ELSE IF generation_try_fails(response)
    THEN [state |-> [st EXCEPT
                       !.error_context = "Plan generation error",
                       !.current_plan =
                           create_fallback_plan(st.user_profile,
                                                st.current_week, plan_id, now)],
          raised |-> FALSE, llm_calls |-> 1]
    ELSE LET plan_data == parse_plan_response(response) IN
         [state |-> [st EXCEPT
                       !.current_plan =
                           WorkoutPlan(plan_id, st.user_profile.user_id,
                               st.current_week,
                               [i \in DOMAIN plan_data.days |->
                                   model_validate(plan_data.days[i])],
                               IF plan_data.rationale = Nil
                               THEN [text |-> "Initial plan generation"]
                               ELSE plan_data.rationale,
                               now),
                       !.workflow_stage = "plan_generated"],
          raised |-> FALSE, llm_calls |-> 1]

\* plan_validation_node that rejects a plan whose findings survive repair
plan_validation_node_rejecting(st) ==
    IF validate_raises(st.current_plan, st.user_profile)
    THEN [state |-> [st EXCEPT !.error_context = "Plan validation error"],
          raised |-> FALSE, saved |-> Nil]
    ELSE LET errors == validate_plan_structure(st.current_plan,
                                               st.user_profile)
             plan == IF errors # <<>>
                     THEN fix_plan_issues(st.current_plan, errors,
                                          st.user_profile)
                     ELSE st.current_plan
         IN IF validate_plan_structure(plan, st.user_profile) # <<>>
            THEN [state |-> [st EXCEPT !.current_plan = plan,
                                       !.error_context = "Plan validation error"],
                  raised |-> FALSE, saved |-> Nil]
            ELSE [state |-> [st EXCEPT !.current_plan = plan,
                                       !.workflow_stage = "plan_validated"],
                  raised |-> FALSE, saved |-> plan]

\* WorkoutEngine._plan_validation_node; saved = Nil when nothing is saved
plan_validation_node(st) ==
    IF validate_raises(st.current_plan, st.user_profile)
    THEN [state |-> [st EXCEPT !.error_context = "Plan validation error"],
          raised |-> FALSE, saved |-> Nil]
    ELSE LET errors == validate_plan_structure(st.current_plan,
                                               st.user_profile)
             plan == IF errors # <<>>
                     THEN fix_plan_issues(st.current_plan, errors,
                                          st.user_profile)
                     ELSE st.current_plan
         IN [state |-> [st EXCEPT !.current_plan = plan,
                                  !.workflow_stage = "plan_validated"],
             raised |-> FALSE, saved |-> plan]

-----------------------------------------------------------------------------
(* The compiled graph (WorkoutEngine._build_workflow): START ->            *)
(* profile_intake -> plan_generation -> plan_validation -> END.  An        *)
(* exception that leaves a stage aborts the run (pc = "raised").           *)

\* the edge out of a stage
next_stage(stage) ==
    CASE stage = "profile_intake" -> "plan_generation"
      [] stage = "plan_generation" -> "plan_validation"
      [] stage = "plan_validation" -> "END"

after(stage, out) == IF out.raised THEN "raised" ELSE next_stage(stage)

\* graph.ainvoke(WorkoutState(user_profile=..., current_week=...))
StartRun(profile, week_number) ==
    /\ pc \in {"idle", "END", "raised"}
    /\ uuid_counter < MaxPlans
    /\ state' = WorkoutState(profile, week_number)
    /\ pc' = "profile_intake"
    /\ trace' = <<>>
    /\ llm_calls' = 0
    /\ UNCHANGED <<users, workout_logs, workout_plans, uuid_counter, clock, last, calls>>

ProfileIntake ==
    /\ pc = "profile_intake"
    /\ LET out == profile_intake_node(state) IN
         /\ state' = out.state
         /\ pc' = after("profile_intake", out)
    /\ trace' = Append(trace, "profile_intake")
    /\ UNCHANGED <<users, workout_logs, workout_plans, uuid_counter, clock, llm_calls, last,
                   calls>>

PlanGeneration(response) ==
    /\ pc = "plan_generation"
    /\ response = Nil <=> state.user_profile = Nil  \* no prompt, no model call
    /\ LET out == plan_generation_node(state, response, uuid_counter + 1,
                                       clock) IN
         /\ state' = out.state
         /\ pc' = after("plan_generation", out)
         /\ llm_calls' = llm_calls + out.llm_calls
         /\ IF out.state.current_plan # Nil
            THEN uuid_counter' = uuid_counter + 1 /\ clock' = clock + 1
            ELSE UNCHANGED <<uuid_counter, clock>>
    /\ trace' = Append(trace, "plan_generation")
    /\ UNCHANGED <<users, workout_logs, workout_plans, last, calls>>

PlanValidation ==
    /\ pc = "plan_validation"
    /\ LET out == plan_validation_node(state) IN
         /\ state' = out.state
         /\ pc' = after("plan_validation", out)
         /\ workout_plans' = IF out.saved = Nil THEN workout_plans
                             ELSE save_workout_plan(workout_plans, out.saved)
    /\ trace' = Append(trace, "plan_validation")
    /\ UNCHANGED <<users, workout_logs, uuid_counter, clock, llm_calls, last, calls>>

InputProfiles == {Nil} \cup UNION { ProfileChoices(u) : u \in Users }

NextGraph ==
    \/ \E p \in InputProfiles, w \in Weeks : StartRun(p, w)
    \/ ProfileIntake
    \/ \E r \in LLMReplies \cup {Nil} : PlanGeneration(r)
    \/ PlanValidation

SpecGraph == Init /\ [][NextGraph]_vars

-----------------------------------------------------------------------------
(* Properties of plan synthesis through the public API (Spec) *)

IsWeekdayPlan(plan) ==
    /\ Len(plan.days) = 5
    /\ { plan.days[i].day : i \in DOMAIN plan.days } = WorkoutDay

EveryDayHasExercise(plan) ==
    \A i \in DOMAIN plan.days : plan.days[i].exercises # <<>>

IsPersisted(plan) == get_workout_plan(plan.plan_id) = plan

GeneratePlanReturned ==
    /\ last.op = "generate_plan"
    /\ last.error = NoneStr

\* the reply holds no JSON object, or one whose day list is missing or empty
NoUsableDayList(response) ==
    \/ is_unparseable(response)
    \/ /\ ~response.raises
       /\ \/ response.json.days_kind = "missing"
          \/ response.json.days_kind = "list" /\ response.json.days = <<>>

\* C1: the plan generate_plan returns and persists has exactly five days,
\* one for each of monday..friday, and every day has at least one exercise,
\* whatever the model replied.
C1_FiveWeekdaysAlways ==
    GeneratePlanReturned =>
        /\ IsPersisted(last.plan)
        /\ IsWeekdayPlan(last.plan)
        /\ EveryDayHasExercise(last.plan)

\* C2: for a user with a stored profile generate_plan raises nothing and
\* returns a plan that it has persisted, whether the model call failed,
\* replied unparseable text or replied structurally invalid content.
C2_GenerationErrorsAbsorbed ==
    (last.op = "generate_plan" /\ last.profile # Nil) =>
        /\ last.error = NoneStr
        /\ last.plan # Nil
        /\ last.plan.user_id = last.user_id
        /\ IsPersisted(last.plan)

\* C2 witness: a reply whose day list holds a day pydantic rejects was
\* absorbed, and the returned plan is in the plan store
C2_Witness ==
    /\ GeneratePlanReturned
    /\ ~last.response.raises
    /\ json_loads_ok(last.response)
    /\ ~days_validate(parse_ai_response(last.response))
    /\ IsPersisted(last.plan)

\* C3: generate_plan and adapt_plan for a user id without stored profile
\* fail with the not-found error, call the model zero times and leave the
\* plan store as it was, with no plan of that user in it.
C3_NoProfileNotFound ==
    [][ (last' # last /\ last'.profile = Nil) =>
            /\ last'.op \in {"generate_plan", "adapt_plan"}
            /\ last'.error = "User profile not found"
            /\ last'.plan = Nil
            /\ llm_calls' = 0
            /\ workout_plans' = workout_plans
            /\ \A id \in DOMAIN workout_plans' :
                   workout_plans'[id].user_id # last'.user_id ]_vars

\* C3 witness: adapt_plan failed for a user without profile while the plan
\* store held plans
C3_Witness ==
    /\ last.op = "adapt_plan"
    /\ last.profile = Nil
    /\ last.error = "User profile not found"
    /\ DOMAIN workout_plans # {}

\* C6: when the reply holds no parseable structure, or parses with a missing
\* or empty day list, the plan generate_plan produces is the hand-authored
\* five-day monday-to-friday template.
C6_FallbackIsFiveDayTemplate ==
    (GeneratePlanReturned /\ NoUsableDayList(last.response)) =>
        last.plan.days = simple_plan_days(last.profile)

\* C7: any two generate_plan calls that got unparseable text for the same
\* profile and week returned plans that agree on everything but plan id and
\* creation time, in particular on the whole day list.
C7_FallbackDeterminism ==
    \A i, j \in DOMAIN calls :
        ( /\ calls[i].unparseable /\ calls[j].unparseable
          /\ calls[i].profile = calls[j].profile
          /\ calls[i].week_number = calls[j].week_number ) =>
        LET a == get_workout_plan(calls[i].plan_id)
            b == get_workout_plan(calls[j].plan_id)
        IN /\ a.days = b.days
           /\ a.user_id = b.user_id
           /\ a.week_number = b.week_number
           /\ a.adaptation_rationale = b.adaptation_rationale

\* C7 witness: two distinct calls for one profile and week both got
\* unparseable text
C7_Witness ==
    \E i, j \in DOMAIN calls :
        /\ i # j
        /\ calls[i].unparseable /\ calls[j].unparseable
        /\ calls[i].profile = calls[j].profile
        /\ calls[i].week_number = calls[j].week_number
        /\ calls[i].plan_id # calls[j].plan_id

-----------------------------------------------------------------------------
(* Properties of the generation graph (SpecGraph) *)

GraphStages == <<"profile_intake", "plan_generation", "plan_validation">>

RunEnded == pc \in {"END", "raised"}

\* C4: no stage lets a failure escape to the orchestrator: every stage
\* returns the state, so the run never ends by an exception.
C4_StagesNeverRaise == pc # "raised"

\* C5: a run of the graph executes profile_intake, plan_generation and
\* plan_validation, each once and in that order, and then ends.
C5_LinearRun ==
    /\ \A i \in DOMAIN trace : i <= 3 /\ trace[i] = GraphStages[i]
    /\ RunEnded => trace = GraphStages

\* C8: the plan saved by plan_validation has the days of the candidate plan,
\* each with at least one exercise, and a day that reached validation
\* without exercises holds exactly the one placeholder exercise.
C8_SavedDaysHaveExercises ==
    [][ (pc = "plan_validation" /\ workout_plans' # workout_plans) =>
            LET old == state.current_plan
                new == workout_plans'[old.plan_id]
            IN /\ DOMAIN workout_plans' = DOMAIN workout_plans \cup {old.plan_id}
               /\ Len(new.days) = Len(old.days)
               /\ \A i \in DOMAIN new.days :
                     /\ new.days[i].exercises # <<>>
                     /\ old.days[i].exercises = <<>> =>
                            new.days[i].exercises = <<PlaceholderExercise>> ]_vars

\* C8 witness: a run ended with a saved plan one of whose days holds the
\* placeholder exercise
C8_Witness ==
    /\ pc = "END"
    /\ state.current_plan # Nil
    /\ IsPersisted(state.current_plan)
    /\ \E i \in DOMAIN state.current_plan.days :
           state.current_plan.days[i].exercises = <<PlaceholderExercise>>

\* C9: no plan with an empty day list is ever in the plan store.
C9_NoEmptyPlanPersisted ==
    \A id \in DOMAIN workout_plans : workout_plans[id].days # <<>>

OverBudget(day, profile) ==
    day.estimated_duration > profile.schedule.session_duration + TimeTolerance

\* C10: whenever plan_validation runs on a state that holds a candidate
\* plan, the stage saves that plan (as repaired) and tags the state
\* plan_validated, whatever the validator found.
C10_ValidationAlwaysSaves ==
    [][ (pc = "plan_validation" /\ state.current_plan # Nil) =>
            /\ pc' = "END"
            /\ state'.workflow_stage = "plan_validated"
            /\ state'.current_plan.plan_id = state.current_plan.plan_id
            /\ state.current_plan.plan_id \in DOMAIN workout_plans'
            /\ workout_plans'[state.current_plan.plan_id]
                  = state'.current_plan ]_vars

\* C10 witness: a run ended with its plan saved although a day of it is
\* over the time budget, a finding the repairer leaves alone
C10_Witness ==
    /\ pc = "END"
    /\ state.current_plan # Nil
    /\ IsPersisted(state.current_plan)
    /\ \E i \in DOMAIN state.current_plan.days :
           OverBudget(state.current_plan.days[i], state.user_profile)

-----------------------------------------------------------------------------
(* The validator / repairer as a function of a plan and its profile        *)
(* (SpecRepair): a plan drawn from RepairPlans goes through the validation *)
(* stage twice.                                                            *)

MaxRepairDays == 2

\* days around both profiles' time limits (15 + 15 and 45 + 15 minutes),
\* without exercises, with one, and with two
RepairDays ==
    { DayPlan(d, "full_body", ex, dur) :
        d \in {"monday", "tuesday"},
        ex \in {<<>>, <<ModelExercise>>, <<ModelExercise, PlaceholderExercise>>},
        dur \in {30, 31, 60, 61} }

RepairPlans ==
    { WorkoutPlan(1, "u1", 1, days, [text |-> "Initial plan generation"], 0) :
        days \in UNION { [1..n -> RepairDays] : n \in 0..MaxRepairDays } }

InitRepair ==
    /\ users \in StoredProfiles
    /\ workout_plans = <<>>
    /\ workout_logs = <<>>
    /\ uuid_counter = 1
    /\ clock = 1
    /\ llm_calls = 0
    /\ last = [op |-> "none"]
    /\ calls = <<>>
    /\ \E plan \in RepairPlans :
          state = [WorkoutState(users["u1"], 1) EXCEPT !.current_plan = plan]
    /\ pc = "repair_1"
    /\ trace = <<>>

\* one pass of the validation stage over the state's plan; last keeps the
\* pass's input and the findings the validator returned for it
Repair ==
    /\ pc \in {"repair_1", "repair_2"}
    /\ LET out == plan_validation_node(state) IN
         /\ state' = out.state
         /\ workout_plans' = IF out.saved = Nil THEN workout_plans
                             ELSE save_workout_plan(workout_plans, out.saved)
    /\ last' = [op |-> "repair", before |-> state.current_plan,
                findings |-> validate_plan_structure(state.current_plan,
                                                     state.user_profile)]
    /\ pc' = IF pc = "repair_1" THEN "repair_2" ELSE "repaired"
    /\ trace' = Append(trace, state.current_plan)
    /\ UNCHANGED <<users, workout_logs, uuid_counter, clock, llm_calls, calls>>

NextRepair == Repair

SpecRepair == InitRepair /\ [][NextRepair]_vars

-----------------------------------------------------------------------------
(* Properties of the validator and the repair (SpecRepair) *)

RepairLimit == state.user_profile.schedule.session_duration + 15

\* how often finding f occurs in the list fs
Occurrences(fs, f) == Cardinality({i \in DOMAIN fs : fs[i] = f})

\* C11: repair is idempotent: the second validate-then-repair pass over the
\* result of the first leaves the plan as it is (same days, same exercises)
C11_RepairIdempotent ==
    [][pc = "repair_2" => state'.current_plan = state.current_plan]_vars

\* the first pass repaired a day and the second pass, which still had a
\* finding and so ran the repair again, has been made
C11_Witness ==
    /\ pc = "repaired"
    /\ trace[1] # trace[2]
    /\ last.findings # <<>>

\* C12: the validator returns exactly: the no-days finding iff the day list
\* is empty; for each day a time finding iff its duration is greater than
\* session_duration + 15; for each day a no-exercises finding iff its exercise
\* list is empty; and nothing else
C12_ExactFindings ==
    last.op = "repair" =>
        LET days == last.before.days
            fs == last.findings
            tags == {days[i].day : i \in DOMAIN days}
        IN /\ Occurrences(fs, Finding("No workout days defined", NoneStr))
                = (IF days = <<>> THEN 1 ELSE 0)
           /\ \A d \in tags :
                /\ Occurrences(fs, Finding("exceeds time limit", d))
                     = Cardinality({i \in DOMAIN days :
                            /\ days[i].day = d
                            /\ days[i].estimated_duration > RepairLimit})
                /\ Occurrences(fs, Finding("has no exercises", d))
                     = Cardinality({i \in DOMAIN days :
                            /\ days[i].day = d
                            /\ days[i].exercises = <<>>})
           /\ \A i \in DOMAIN fs :
                \/ fs[i] = Finding("No workout days defined", NoneStr)
                \/ \E d \in tags :
                     fs[i] \in {Finding("exceeds time limit", d),
                                Finding("has no exercises", d)}

\* a validated plan held a day of exactly session_duration + 15 minutes next
\* to a longer one, and only the longer one was reported
C12_Witness ==
    /\ last.op = "repair"
    /\ \E i, j \in DOMAIN last.before.days :
         /\ last.before.days[i].estimated_duration = RepairLimit
         /\ last.before.days[j].estimated_duration > RepairLimit
         /\ last.before.days[i].day # last.before.days[j].day
         /\ Occurrences(last.findings,
               Finding("exceeds time limit", last.before.days[i].day)) = 0
         /\ Occurrences(last.findings,
               Finding("exceeds time limit", last.before.days[j].day)) = 1

\* what one pass keeps of the plan it is given, in the state and in the store
RepairKeepsDays ==
    pc \in {"repair_1", "repair_2"} =>
        LET before == state.current_plan.days
            after_ == state'.current_plan.days
            saved == workout_plans'[state.current_plan.plan_id].days
        IN /\ Len(after_) = Len(before)
           /\ Len(saved) = Len(before)
           /\ \A i \in DOMAIN before :
                /\ after_[i].day = before[i].day
                /\ after_[i].focus = before[i].focus
                /\ after_[i].estimated_duration = before[i].estimated_duration
                /\ saved[i].estimated_duration = before[i].estimated_duration
                /\ before[i].exercises # <<>> =>
                     /\ after_[i].exercises = before[i].exercises
                     /\ saved[i].exercises = before[i].exercises

\* C13: repair is additive only: a pass keeps every day in its place with
\* its tag, focus and estimated duration, keeps the exercises of a day that
\* has any, and the plan it persists has the same durations, over-long ones
\* included
C13_RepairAdditive == [][RepairKeepsDays]_vars

\* a pass repaired a plan that holds an over-long day with exercises next to
\* a day without, and the plan is stored with the over-long duration
C13_Witness ==
    /\ pc = "repair_2"
    /\ trace[1] # state.current_plan
    /\ \E i \in DOMAIN trace[1].days :
         /\ trace[1].days[i].estimated_duration > RepairLimit
         /\ trace[1].days[i].exercises # <<>>
         /\ workout_plans[1].days[i].estimated_duration
              = trace[1].days[i].estimated_duration

-----------------------------------------------------------------------------
(* The adaptation stages (SpecAdapt).  _build_workflow does not wire them  *)
(* into the compiled graph; they are run as direct calls in the order      *)
(* feedback_analysis, metrics_calculation, adaptation_decision,            *)
(* rationale_generation on one WorkoutState.                               *)

MaxLogs == 5

\* a Python float that is the quotient of two small integers, kept exact
Ratio(num, den) == [num |-> num, den |-> den]

\* r < n / d and r > n / d for positive denominators
ratio_lt(r, n, d) == r.num * d < n * r.den
ratio_gt(r, n, d) == r.num * d > n * r.den

\* the float formatted with k decimals: the nearest multiple of 1 / scale,
\* ties to even
format_fixed(r, scale) ==
    LET q == (r.num * scale) \div r.den
        twice_rem == 2 * ((r.num * scale) % r.den)
    IN IF twice_rem > r.den \/ (twice_rem = r.den /\ q % 2 = 1)
       THEN q + 1 ELSE q

WorkoutLog(log_id, user_id, plan_id, session_rpe) ==
    [log_id |-> log_id, user_id |-> user_id, plan_id |-> plan_id,
     session_rpe |-> session_rpe]

ProgressionIndicators(strength_gains, endurance_improvements, form_quality) ==
    [strength_gains |-> strength_gains,
     endurance_improvements |-> endurance_improvements,
     form_quality |-> form_quality]

WeeklyMetrics(user_id, week_number, adherence_rate, average_rpe, completed_sessions, total_planned_sessions, progression_indicators, concerns) ==
    [user_id |-> user_id, week_number |-> week_number,
     adherence_rate |-> adherence_rate, average_rpe |-> average_rpe,
     completed_sessions |-> completed_sessions,
     total_planned_sessions |-> total_planned_sessions,
     progression_indicators |-> progression_indicators,
     concerns |-> concerns]

\* WeeklyMetrics validation with the bounds of adherence_rate dropped
weekly_metrics_valid_unbounded(adherence_rate) == TRUE

\* adherence_rate: float = Field(ge=0.0, le=1.0)
weekly_metrics_valid(adherence_rate) ==
    /\ adherence_rate.num >= 0
    /\ adherence_rate.num <= adherence_rate.den

\* a value of the parsed insights under one key: the key may be missing
JsonList(present, items) == [present |-> present, items |-> items]

\* what json.loads made of the feedback reply: an object with the two keys
\* the decision reads, or a JSON value that is no object (a list)
Insights(is_dict, pain_flags, schedule_conflicts) ==
    [is_dict |-> is_dict, pain_flags |-> pain_flags,
     schedule_conflicts |-> schedule_conflicts]

\* the default of feedback_analysis.get("insights", {})
EmptyInsights == Insights(TRUE, JsonList(FALSE, <<>>), JsonList(FALSE, <<>>))

\* dict.get(key) is truthy: the key is there and its list is not empty
truthy(value) == value.present /\ value.items # <<>>

FeedbackReply(raises, well_formed, value) ==
    [raises |-> raises, well_formed |-> well_formed, value |-> value]

JsonLists ==
    { JsonList(FALSE, <<>>), JsonList(TRUE, <<>>), JsonList(TRUE, <<"flag">>) }

FeedbackReplies ==
    { FeedbackReply(TRUE, FALSE, EmptyInsights),      \* the call raises
      FeedbackReply(FALSE, FALSE, EmptyInsights),     \* text that is no JSON
      FeedbackReply(FALSE, TRUE,                      \* a JSON list
          Insights(FALSE, JsonList(FALSE, <<>>), JsonList(FALSE, <<>>))) }
    \cup { FeedbackReply(FALSE, TRUE, Insights(TRUE, p, c)) :
            p \in JsonLists, c \in JsonLists }

RationaleReply(raises, content) == [raises |-> raises, content |-> content]

RationaleReplies ==
    { RationaleReply(TRUE, NoneStr),
      RationaleReply(FALSE, "Nice effort; next week is lighter.") }

\* one llm.ainvoke of a stage, as the call log keeps it
ModelCall(stage, response) ==
    [stage |-> stage, raised |-> response.raises,
     unparseable |-> IF stage = "feedback_analysis"
                     THEN ~response.raises /\ ~response.well_formed
                     ELSE FALSE]

\* "if feedback_text:" taken for every state
feedback_text_present_always(text) == TRUE

\* "if feedback_text:" of _feedback_analysis_node; NoneStr is a scratch
\* area without the key raw_feedback
feedback_text_present(text) == text \notin {NoneStr, ""}

\* feedback_analysis_node that keeps the reply it could not parse as the
\* insights
feedback_analysis_node_keeps_reply(st, response) ==
    IF ~feedback_text_present(st.feedback_analysis.raw_feedback)
    THEN [state |-> [st EXCEPT !.workflow_stage = "feedback_analyzed"],
          raised |-> FALSE, llm_calls |-> 0]
    ELSE IF response.raises
    THEN [state |-> [st EXCEPT !.error_context = "Feedback analysis error"],
          raised |-> FALSE, llm_calls |-> 1]
    ELSE IF ~response.well_formed
    THEN [state |-> [st EXCEPT
                       !.feedback_analysis.has_insights = TRUE,
                       !.feedback_analysis.insights =
                           Insights(FALSE, JsonList(FALSE, <<>>),
                                    JsonList(FALSE, <<>>)),
                       !.error_context = "Feedback analysis error"],
          raised |-> FALSE, llm_calls |-> 1]
    ELSE [state |-> [st EXCEPT
                       !.feedback_analysis.has_insights = TRUE,
                       !.feedback_analysis.insights = response.value,
                       !.workflow_stage = "feedback_analyzed"],
          raised |-> FALSE, llm_calls |-> 1]

\* WorkoutEngine._feedback_analysis_node; response is Nil when no call is made
feedback_analysis_node(st, response) ==
    IF ~feedback_text_present(st.feedback_analysis.raw_feedback)
    THEN [state |-> [st EXCEPT !.workflow_stage = "feedback_analyzed"],
          raised |-> FALSE, llm_calls |-> 0]
    ELSE IF response.raises \/ ~response.well_formed
    THEN [state |-> [st EXCEPT !.error_context = "Feedback analysis error"],
          raised |-> FALSE, llm_calls |-> 1]
    ELSE [state |-> [st EXCEPT
                       !.feedback_analysis.has_insights = TRUE,
                       !.feedback_analysis.insights = response.value,
                       !.workflow_stage = "feedback_analyzed"],
          raised |-> FALSE, llm_calls |-> 1]

\* get_week_logs without the join on the plan's week
get_week_logs_any_week(user_id, week_number) ==
    SelectSeq(workout_logs, LAMBDA row : row.user_id = user_id)

\* DatabaseManager.get_week_logs: the user's logs joined with the plans of
\* the week
get_week_logs(user_id, week_number) ==
    SelectSeq(workout_logs,
              LAMBDA row :
                /\ row.user_id = user_id
                /\ row.plan_id \in DOMAIN workout_plans
                /\ workout_plans[row.plan_id].week_number = week_number)

RECURSIVE sum_session_rpe(_)
sum_session_rpe(logs) ==
    IF logs = <<>> THEN 0
    ELSE Head(logs).session_rpe + sum_session_rpe(Tail(logs))

\* "if logs:" taken for every lookup result
has_logs_always(logs) == TRUE

\* "if logs:" of _metrics_calculation_node
has_logs(logs) == logs # <<>>

DefaultPlannedSessions == 5

\* the denominator taken as the default whatever the state's plan
total_planned_default(st) == DefaultPlannedSessions

\* total_planned of _metrics_calculation_node (a plan object is truthy
\* whatever its day list)
total_planned(st) ==
    IF st.current_plan # Nil THEN Len(st.current_plan.days)
    ELSE DefaultPlannedSessions

\* the progression heuristic with avg_rpe <= 8 for the strength flag
progression_inclusive(avg_rpe, adherence_rate) ==
    ProgressionIndicators(
        ~ratio_gt(avg_rpe, 8, 1) /\ ratio_gt(adherence_rate, 4, 5),
        TRUE,
        IF ratio_lt(avg_rpe, 7, 1) THEN "improving" ELSE "stable")

\* ProgressionIndicators(...) of _metrics_calculation_node
progression(avg_rpe, adherence_rate) ==
    ProgressionIndicators(
        ratio_lt(avg_rpe, 8, 1) /\ ratio_gt(adherence_rate, 4, 5),
        TRUE,
        IF ratio_lt(avg_rpe, 7, 1) THEN "improving" ELSE "stable")

\* concerns=... of _metrics_calculation_node
concerns(avg_rpe) ==
    IF ratio_gt(avg_rpe, 17, 2) THEN <<"high_fatigue">> ELSE <<>>

\* metrics_calculation_node that caps the adherence rate at 1 instead of
\* failing
metrics_calculation_node_capping(st) ==
    IF st.user_profile = Nil
    THEN [state |-> [st EXCEPT !.error_context = "Metrics calculation error"],
          raised |-> FALSE, looked_up |-> FALSE, logs |-> <<>>]
    ELSE
    LET logs == get_week_logs(st.user_profile.user_id, st.current_week)
        failed == [state |-> [st EXCEPT
                                !.error_context = "Metrics calculation error"],
                   raised |-> FALSE, looked_up |-> TRUE, logs |-> logs]
    IN
    IF ~has_logs(logs)
    THEN [state |-> [st EXCEPT !.workflow_stage = "metrics_calculated"],
          raised |-> FALSE, looked_up |-> TRUE, logs |-> logs]
    ELSE IF total_planned(st) = 0 \/ Len(logs) = 0
    THEN failed
    ELSE
    LET completed_sessions == Len(logs)
        adherence_rate == IF completed_sessions > total_planned(st)
                          THEN Ratio(1, 1)
                          ELSE Ratio(completed_sessions, total_planned(st))
        avg_rpe == Ratio(sum_session_rpe(logs), Len(logs))
    IN [state |-> [st EXCEPT
                       !.metrics =
                           WeeklyMetrics(st.user_profile.user_id,
                               st.current_week, adherence_rate, avg_rpe,
                               completed_sessions, total_planned(st),
                               progression(avg_rpe, adherence_rate),
                               concerns(avg_rpe)),
                       !.workflow_stage = "metrics_calculated"],
          raised |-> FALSE, looked_up |-> TRUE, logs |-> logs]

\* WorkoutEngine._metrics_calculation_node; looked_up tells whether the
\* stage got as far as the log lookup
metrics_calculation_node(st) ==
    IF st.user_profile = Nil
    THEN [state |-> [st EXCEPT !.error_context = "Metrics calculation error"],
          raised |-> FALSE, looked_up |-> FALSE, logs |-> <<>>]
    ELSE
    LET logs == get_week_logs(st.user_profile.user_id, st.current_week)
        failed == [state |-> [st EXCEPT
                                !.error_context = "Metrics calculation error"],
                   raised |-> FALSE, looked_up |-> TRUE, logs |-> logs]
    IN
    IF ~has_logs(logs)
    THEN [state |-> [st EXCEPT !.workflow_stage = "metrics_calculated"],
          raised |-> FALSE, looked_up |-> TRUE, logs |-> logs]
    ELSE IF total_planned(st) = 0 \/ Len(logs) = 0   \* ZeroDivisionError
    THEN failed
    ELSE
    LET completed_sessions == Len(logs)
        adherence_rate == Ratio(completed_sessions, total_planned(st))
        avg_rpe == Ratio(sum_session_rpe(logs), Len(logs))
    IN
    IF ~weekly_metrics_valid(adherence_rate)            \* ValidationError
    THEN failed
    ELSE [state |-> [st EXCEPT
                       !.metrics =
                           WeeklyMetrics(st.user_profile.user_id,
                               st.current_week, adherence_rate, avg_rpe,
                               completed_sessions, total_planned(st),
                               progression(avg_rpe, adherence_rate),
                               concerns(avg_rpe)),
                       !.workflow_stage = "metrics_calculated"],
          raised |-> FALSE, looked_up |-> TRUE, logs |-> logs]

\* a reasoning summary that also tells whether pain was reported
build_adaptation_reasoning_with_feedback(metrics, feedback_insights) ==
    IF metrics = Nil THEN [text |-> "No metrics available"]
    ELSE [adherence |-> format_fixed(metrics.adherence_rate, 1000),
          average_rpe |-> format_fixed(metrics.average_rpe, 10),
          completed |-> metrics.completed_sessions,
          planned |-> metrics.total_planned_sessions,
          pain |-> truthy(feedback_insights.pain_flags)]

\* WorkoutEngine._build_adaptation_reasoning: the percentage in tenths of a
\* percent, the average in tenths, and the two counts
build_adaptation_reasoning(metrics, feedback_insights) ==
    IF metrics = Nil THEN [text |-> "No metrics available"]
    ELSE [adherence |-> format_fixed(metrics.adherence_rate, 1000),
          average_rpe |-> format_fixed(metrics.average_rpe, 10),
          completed |-> metrics.completed_sessions,
          planned |-> metrics.total_planned_sessions]

\* the rules with adherence <= 0.6 for reduce_volume
adaptation_rules_inclusive(metrics, feedback_insights) ==
    (IF metrics # Nil /\ ~ratio_gt(metrics.adherence_rate, 3, 5)
     THEN <<"reduce_volume">> ELSE <<>>)
    \o (IF metrics # Nil /\ ratio_gt(metrics.average_rpe, 17, 2)
        THEN <<"deload_intensity">> ELSE <<>>)
    \o (IF truthy(feedback_insights.pain_flags)
        THEN <<"exercise_substitution">> ELSE <<>>)
    \o (IF truthy(feedback_insights.schedule_conflicts)
        THEN <<"adjust_timing">> ELSE <<>>)

\* the rules with the two metric rules in the other order
adaptation_rules_swapped(metrics, feedback_insights) ==
    (IF metrics # Nil /\ ratio_gt(metrics.average_rpe, 17, 2)
     THEN <<"deload_intensity">> ELSE <<>>)
    \o (IF metrics # Nil /\ ratio_lt(metrics.adherence_rate, 3, 5)
        THEN <<"reduce_volume">> ELSE <<>>)
    \o (IF truthy(feedback_insights.pain_flags)
        THEN <<"exercise_substitution">> ELSE <<>>)
    \o (IF truthy(feedback_insights.schedule_conflicts)
        THEN <<"adjust_timing">> ELSE <<>>)

\* the four rules of _adaptation_decision_node, in the order of the code
adaptation_rules(metrics, feedback_insights) ==
    (IF metrics # Nil /\ ratio_lt(metrics.adherence_rate, 3, 5)
     THEN <<"reduce_volume">> ELSE <<>>)
    \o (IF metrics # Nil /\ ratio_gt(metrics.average_rpe, 17, 2)
        THEN <<"deload_intensity">> ELSE <<>>)
    \o (IF truthy(feedback_insights.pain_flags)
        THEN <<"exercise_substitution">> ELSE <<>>)
    \o (IF truthy(feedback_insights.schedule_conflicts)
        THEN <<"adjust_timing">> ELSE <<>>)

\* adaptation_decision_node that stores the actions collected before the
\* failure
adaptation_decision_node_partial(st) ==
    LET feedback_insights == IF st.feedback_analysis.has_insights
                             THEN st.feedback_analysis.insights
                             ELSE EmptyInsights
    IN IF ~feedback_insights.is_dict
       THEN [state |-> [st EXCEPT
                          !.adaptation_context.adaptations =
                              adaptation_rules(st.metrics, EmptyInsights),
                          !.error_context = "Adaptation decision error"],
             raised |-> FALSE]
       ELSE [state |-> [st EXCEPT
                          !.adaptation_context =
                              AdaptationContext(TRUE,
                                  adaptation_rules(st.metrics,
                                                   feedback_insights),
                                  build_adaptation_reasoning(st.metrics,
                                                   feedback_insights),
                                  NoneStr),
                          !.workflow_stage = "adaptation_decided"],
             raised |-> FALSE]

\* WorkoutEngine._adaptation_decision_node; .get on insights that are no
\* dict raises AttributeError inside the try
adaptation_decision_node(st) ==
    LET feedback_insights == IF st.feedback_analysis.has_insights
                             THEN st.feedback_analysis.insights
                             ELSE EmptyInsights
    IN IF ~feedback_insights.is_dict
       THEN [state |-> [st EXCEPT
                          !.error_context = "Adaptation decision error"],
             raised |-> FALSE]
       ELSE [state |-> [st EXCEPT
                          !.adaptation_context =
                              AdaptationContext(TRUE,
                                  adaptation_rules(st.metrics,
                                                   feedback_insights),
                                  build_adaptation_reasoning(st.metrics,
                                                   feedback_insights),
                                  NoneStr),
                          !.workflow_stage = "adaptation_decided"],
             raised |-> FALSE]

\* "if adaptations:" taken for every action list
needs_rationale_call_always(adaptations) == TRUE

\* "if adaptations:" of _rationale_generation_node
needs_rationale_call(adaptations) == adaptations # <<>>

\* rationale_generation_node that clears the error note when it succeeds
rationale_generation_node_clearing(st, response) ==
    IF needs_rationale_call(st.adaptation_context.adaptations)
    THEN IF response.raises
         THEN [state |-> [st EXCEPT
                            !.error_context = "Rationale generation error"],
               raised |-> FALSE, llm_calls |-> 1]
         ELSE [state |-> [st EXCEPT
                            !.adaptation_context.rationale = response.content,
                            !.workflow_stage = "rationale_generated",
                            !.error_context = NoneStr],
               raised |-> FALSE, llm_calls |-> 1]
    ELSE [state |-> [st EXCEPT
                       !.adaptation_context.rationale =
                           "Great work this week! Continuing with progressive overload.",
                       !.workflow_stage = "rationale_generated",
                       !.error_context = NoneStr],
          raised |-> FALSE, llm_calls |-> 0]

\* WorkoutEngine._rationale_generation_node; response is Nil when no call
\* is made
rationale_generation_node(st, response) ==
    IF needs_rationale_call(st.adaptation_context.adaptations)
    THEN IF response.raises
         THEN [state |-> [st EXCEPT
                            !.error_context = "Rationale generation error"],
               raised |-> FALSE, llm_calls |-> 1]
         ELSE [state |-> [st EXCEPT
                            !.adaptation_context.rationale = response.content,
                            !.workflow_stage = "rationale_generated"],
               raised |-> FALSE, llm_calls |-> 1]
    ELSE [state |-> [st EXCEPT
                       !.adaptation_context.rationale =
                           "Great work this week! Continuing with progressive overload.",
                       !.workflow_stage = "rationale_generated"],
          raised |-> FALSE, llm_calls |-> 0]

\* the order the adaptation stages are called in
next_adaptation_stage(stage) ==
    CASE stage = "feedback_analysis" -> "metrics_calculation"
      [] stage = "metrics_calculation" -> "adaptation_decision"
      [] stage = "adaptation_decision" -> "rationale_generation"
      [] stage = "rationale_generation" -> "END"

after_adaptation(stage, out) ==
    IF out.raised THEN "raised" ELSE next_adaptation_stage(stage)

AnalyseFeedback(response) ==
    /\ pc = "feedback_analysis"
    /\ response = Nil
         <=> ~feedback_text_present(state.feedback_analysis.raw_feedback)
    /\ LET out == feedback_analysis_node(state, response) IN
         /\ state' = out.state
         /\ pc' = after_adaptation("feedback_analysis", out)
         /\ llm_calls' = llm_calls + out.llm_calls
         /\ calls' = IF out.llm_calls = 0 THEN calls
                     ELSE Append(calls, ModelCall("feedback_analysis", response))
    /\ trace' = Append(trace, "feedback_analysis")
    /\ UNCHANGED <<users, workout_logs, workout_plans, uuid_counter, clock,
                   last>>

CalculateMetrics ==
    /\ pc = "metrics_calculation"
    /\ LET out == metrics_calculation_node(state) IN
         /\ state' = out.state
         /\ pc' = after_adaptation("metrics_calculation", out)
         /\ last' = [op |-> "metrics_calculation",
                     looked_up |-> out.looked_up, logs |-> out.logs]
    /\ trace' = Append(trace, "metrics_calculation")
    /\ UNCHANGED <<users, workout_logs, workout_plans, uuid_counter, clock,
                   llm_calls, calls>>

DecideAdaptation ==
    /\ pc = "adaptation_decision"
    /\ LET out == adaptation_decision_node(state) IN
         /\ state' = out.state
         /\ pc' = after_adaptation("adaptation_decision", out)
    /\ trace' = Append(trace, "adaptation_decision")
    /\ UNCHANGED <<users, workout_logs, workout_plans, uuid_counter, clock,
                   llm_calls, last, calls>>

GenerateRationale(response) ==
    /\ pc = "rationale_generation"
    /\ response = Nil
         <=> ~needs_rationale_call(state.adaptation_context.adaptations)
    /\ LET out == rationale_generation_node(state, response) IN
         /\ state' = out.state
         /\ pc' = after_adaptation("rationale_generation", out)
         /\ llm_calls' = llm_calls + out.llm_calls
         /\ calls' = IF out.llm_calls = 0 THEN calls
                     ELSE Append(calls, ModelCall("rationale_generation", response))
    /\ trace' = Append(trace, "rationale_generation")
    /\ UNCHANGED <<users, workout_logs, workout_plans, uuid_counter, clock,
                   last>>

\* the profile of the user whose week is adapted
AdaptProfile == UserProfile("u1", "intermediate", {"dumbbells"}, 45)

\* the session exertions of the stored logs: lists in ascending order around
\* the averages 7, 8 and 8.5, and the week 7, 6, 7, 8, 6
SessionRpeLists ==
    { l \in UNION { [1..n -> {6, 7, 8, 9}] : n \in 0..MaxLogs } :
        \A i \in DOMAIN l : i = 1 \/ l[i - 1] <= l[i] }
    \cup { <<7, 6, 7, 8, 6>> }

\* the logs u1 saved for plan 1
LogTables ==
    { [i \in DOMAIN l |-> WorkoutLog(i, "u1", 1, l[i])] : l \in SessionRpeLists }

\* the candidate plans a state may hold: none, or one of 0, 3 or 5 days
StatePlans ==
    {Nil} \cup
    { WorkoutPlan(1, "u1", 1, SubSeq(simple_plan_days(AdaptProfile), 1, n),
                  [text |-> "Initial plan generation"], 0) : n \in {0, 3, 5} }

InitAdapt ==
    /\ users = [u \in Users |-> IF u = "u1" THEN AdaptProfile ELSE Nil]
    /\ workout_plans =
         save_workout_plan(<<>>,
            WorkoutPlan(1, "u1", 1, simple_plan_days(AdaptProfile),
                        [text |-> "Initial plan generation"], 0))
    /\ workout_logs \in LogTables
    /\ uuid_counter = 1
    /\ clock = 1
    /\ llm_calls = 0
    /\ last = [op |-> "none"]
    /\ calls = <<>>
    /\ \E profile \in {Nil, AdaptProfile}, week \in {1, 2},
          plan \in StatePlans, text \in {NoneStr, "", "knee hurt on friday"} :
          state = [WorkoutState(profile, week) EXCEPT
                      !.current_plan = plan,
                      !.feedback_analysis = FeedbackAnalysis(text, FALSE, Nil)]
    /\ pc = "feedback_analysis"
    /\ trace = <<>>

NextAdapt ==
    \/ \E r \in FeedbackReplies \cup {Nil} : AnalyseFeedback(r)
    \/ CalculateMetrics
    \/ DecideAdaptation
    \/ \E r \in RationaleReplies \cup {Nil} : GenerateRationale(r)

SpecAdapt == InitAdapt /\ [][NextAdapt]_vars

-----------------------------------------------------------------------------
(* Properties of the adaptation stages (SpecAdapt) *)

Decision == state.adaptation_context

Chosen(tag) == \E i \in DOMAIN Decision.adaptations : Decision.adaptations[i] = tag

\* the insights the state holds list at least one entry under the key
HoldsOne(key) ==
    /\ state.feedback_analysis.has_insights
    /\ IF key = "pain_flags"
       THEN /\ state.feedback_analysis.insights.pain_flags.present
            /\ Len(state.feedback_analysis.insights.pain_flags.items) >= 1
       ELSE /\ state.feedback_analysis.insights.schedule_conflicts.present
            /\ Len(state.feedback_analysis.insights.schedule_conflicts.items) >= 1

MetricsSet == state.metrics # Nil

\* C14: a decision holds each tag exactly when its own rule fires:
\* reduce_volume iff metrics are set and adherence < 0.6, deload_intensity
\* iff metrics are set and average exertion > 8.5, exercise_substitution iff
\* the insights hold a pain flag, adjust_timing iff they hold a schedule
\* conflict
C14_TagsFollowRules ==
    Decision.decided =>
        /\ Chosen("reduce_volume")
             <=> (MetricsSet /\ 10 * state.metrics.adherence_rate.num
                                  < 6 * state.metrics.adherence_rate.den)
        /\ Chosen("deload_intensity")
             <=> (MetricsSet /\ 10 * state.metrics.average_rpe.num
                                  > 85 * state.metrics.average_rpe.den)
        /\ Chosen("exercise_substitution") <=> HoldsOne("pain_flags")
        /\ Chosen("adjust_timing") <=> HoldsOne("schedule_conflicts")

\* a decision of reduce_volume and exercise_substitution alone, on metrics
\* with an exertion of 8.5 at most and insights whose schedule conflicts are
\* an empty list
C14_Witness ==
    /\ Decision.decided
    /\ Decision.adaptations = <<"reduce_volume", "exercise_substitution">>
    /\ MetricsSet
    /\ state.feedback_analysis.insights.schedule_conflicts.present

ActionOrder ==
    <<"reduce_volume", "deload_intensity", "exercise_substitution",
      "adjust_timing">>

\* C15: the action list of a decision is a duplicate-free subsequence of
\* reduce_volume, deload_intensity, exercise_substitution, adjust_timing
C15_FixedOrder ==
    Decision.decided =>
        \E pos \in [DOMAIN Decision.adaptations -> DOMAIN ActionOrder] :
            /\ \A i \in DOMAIN pos : ActionOrder[pos[i]] = Decision.adaptations[i]
            /\ \A i, j \in DOMAIN pos : i < j => pos[i] < pos[j]

\* adherence below 0.6 and exertion above 8.5 together: both tags, in order
C15_Witness ==
    /\ Decision.decided
    /\ MetricsSet
    /\ 10 * state.metrics.adherence_rate.num < 6 * state.metrics.adherence_rate.den
    /\ 10 * state.metrics.average_rpe.num > 85 * state.metrics.average_rpe.den
    /\ Len(Decision.adaptations) >= 2
    /\ Decision.adaptations[1] = "reduce_volume"
    /\ Decision.adaptations[2] = "deload_intensity"

ZeroLogsKeepMetricsUnset ==
    (pc = "metrics_calculation" /\ last'.looked_up /\ last'.logs = <<>>) =>
        /\ state'.metrics = Nil
        /\ state'.error_context = state.error_context
        /\ state'.workflow_stage = "metrics_calculated"
        /\ pc' = "adaptation_decision"

\* C16: when the week's lookup returns no logs, metrics_calculation leaves
\* the metrics unset, records no error and the next stage follows
C16_ZeroLogsNoMetrics == [][ZeroLogsKeepMetricsUnset]_vars

\* logs are stored, none of them for the state's week, and the stage is done
C16_Witness ==
    /\ last.op = "metrics_calculation"
    /\ last.looked_up
    /\ last.logs = <<>>
    /\ workout_logs # <<>>
    /\ state.metrics = Nil
    /\ state.error_context = NoneStr
    /\ pc = "adaptation_decision"

\* C17: set metrics count the logs the lookup returned as completed, the
\* days of the state's plan (5 without a plan) as planned, and their
\* adherence is completed / planned
C17_MetricsCounts ==
    MetricsSet =>
        /\ last.op = "metrics_calculation"
        /\ state.metrics.completed_sessions = Len(last.logs)
        /\ state.metrics.total_planned_sessions
             = (IF state.current_plan = Nil THEN 5
                ELSE Len(state.current_plan.days))
        /\ state.metrics.adherence_rate.num
             * state.metrics.total_planned_sessions
           = state.metrics.completed_sessions
             * state.metrics.adherence_rate.den

\* two logs counted against a plan of three days
C17_Witness ==
    /\ MetricsSet
    /\ state.current_plan # Nil
    /\ Len(state.current_plan.days) = 3
    /\ state.metrics.completed_sessions = 2
    /\ state.metrics.total_planned_sessions = 3

\* the sum of the session exertions of the logs the lookup returned
RpeSum == sum_session_rpe(last.logs)

ReturnedRpes == [i \in DOMAIN last.logs |-> last.logs[i].session_rpe]

\* C18: with avg the mean exertion of the logs: the strength flag is set iff
\* avg < 8 and adherence > 0.8, the endurance flag always, form quality is
\* improving iff avg < 7 and stable otherwise, the concerns are high_fatigue
\* iff avg > 8.5 and empty otherwise; the logs 7, 6, 7, 8, 6 on a five-day
\* plan give adherence 1.0, the strength flag and no concerns
C18_ProgressionFlags ==
    MetricsSet =>
        LET n == Len(last.logs)
            m == state.metrics
        IN /\ m.average_rpe.num * n = RpeSum * m.average_rpe.den
           /\ m.progression_indicators.strength_gains
                <=> (RpeSum < 8 * n
                     /\ 10 * m.adherence_rate.num > 8 * m.adherence_rate.den)
           /\ m.progression_indicators.endurance_improvements
           /\ m.progression_indicators.form_quality
                = (IF RpeSum < 7 * n THEN "improving" ELSE "stable")
           /\ m.concerns
                = (IF 10 * RpeSum > 85 * n THEN <<"high_fatigue">> ELSE <<>>)
           /\ (/\ ReturnedRpes = <<7, 6, 7, 8, 6>>
               /\ state.current_plan # Nil
               /\ Len(state.current_plan.days) = 5)
                => /\ m.adherence_rate.num = m.adherence_rate.den
                   /\ m.progression_indicators.strength_gains
                   /\ m.concerns = <<>>

\* the week 7, 6, 7, 8, 6 on a five-day plan has its metrics
C18_Witness ==
    /\ MetricsSet
    /\ ReturnedRpes = <<7, 6, 7, 8, 6>>
    /\ state.current_plan # Nil
    /\ Len(state.current_plan.days) = 5
    /\ state.metrics.progression_indicators.strength_gains

\* C19: wherever metrics are set, 0.0 <= adherence_rate <= 1.0
C19_AdherenceInUnitInterval ==
    MetricsSet =>
        /\ state.metrics.adherence_rate.den > 0
        /\ 0 <= state.metrics.adherence_rate.num
        /\ state.metrics.adherence_rate.num <= state.metrics.adherence_rate.den

\* every day of a three-day plan was logged: adherence is exactly 1.0, the
\* greatest value that is accepted
C19_Witness ==
    /\ MetricsSet
    /\ state.metrics.completed_sessions = 3
    /\ state.metrics.total_planned_sessions = 3
    /\ state.metrics.adherence_rate.num = state.metrics.adherence_rate.den

NoFeedbackIsNoOp ==
    (pc = "feedback_analysis"
        /\ state.feedback_analysis.raw_feedback \in {NoneStr, ""}) =>
        /\ llm_calls' = llm_calls
        /\ state'.feedback_analysis = state.feedback_analysis
        /\ ~state'.feedback_analysis.has_insights
        /\ state'.error_context = NoneStr
        /\ state'.workflow_stage = "feedback_analyzed"
        /\ pc' = "metrics_calculation"

\* C20: without feedback text (absent or empty) feedback_analysis makes no
\* model call, leaves the insights empty, records no error and the next
\* stage follows
C20_NoFeedbackNoCall == [][NoFeedbackIsNoOp]_vars

\* the stage has run on an empty feedback text
C20_Witness ==
    /\ pc = "metrics_calculation"
    /\ state.feedback_analysis.raw_feedback = ""
    /\ ~state.feedback_analysis.has_insights
    /\ llm_calls = 0
    /\ state.workflow_stage = "feedback_analyzed"

AdaptationStages ==
    <<"feedback_analysis", "metrics_calculation", "adaptation_decision",
      "rationale_generation">>

\* the feedback stage called the model and could not parse what it replied
FeedbackUnparsed ==
    /\ calls # <<>>
    /\ calls[1].stage = "feedback_analysis"
    /\ calls[1].unparseable

\* C21: when the reply to feedback analysis cannot be parsed, the stage
\* records an error note and stores no insights, the later decision is made
\* and picks neither exercise_substitution nor adjust_timing, and the stages
\* after it run in their order to the end
C21_UnparsedFeedbackDegrades ==
    FeedbackUnparsed =>
        /\ ~state.feedback_analysis.has_insights
        /\ pc = "metrics_calculation"
             => state.error_context = "Feedback analysis error"
        /\ state.error_context # NoneStr
        /\ pc \in {"metrics_calculation", "adaptation_decision",
                   "rationale_generation", "END"}
        /\ trace = SubSeq(AdaptationStages, 1, Len(trace))
        /\ pc = "END" => trace = AdaptationStages
        /\ pc \in {"rationale_generation", "END"} =>
             /\ Decision.decided
             /\ ~Chosen("exercise_substitution")
             /\ ~Chosen("adjust_timing")

\* a run that could not parse the feedback reply has ended with a decision
\* made from the metrics alone
C21_Witness ==
    /\ FeedbackUnparsed
    /\ pc = "END"
    /\ Decision.decided
    /\ Chosen("reduce_volume")

CongratulatoryMessage ==
    "Great work this week! Continuing with progressive overload."

RationaleCallsFollowActions ==
    pc = "rationale_generation" =>
        IF state.adaptation_context.adaptations # <<>>
        THEN /\ llm_calls' = llm_calls + 1
             /\ Len(calls') = Len(calls) + 1
             /\ calls'[Len(calls')].stage = "rationale_generation"
        ELSE /\ llm_calls' = llm_calls
             /\ calls' = calls
             /\ state'.adaptation_context.rationale = CongratulatoryMessage

\* C22: rationale_generation calls the model exactly once when the action
\* list is non-empty and not at all when it is empty, and with an empty list
\* the rationale is the fixed congratulatory message
C22_RationaleCallCount == [][RationaleCallsFollowActions]_vars

\* a run with a decision of no actions ended with the fixed message and
\* without a model call
C22_Witness ==
    /\ pc = "END"
    /\ Decision.decided
    /\ Decision.adaptations = <<>>
    /\ Decision.rationale = CongratulatoryMessage
    /\ llm_calls = 0

\* the rationale stage called the model and the call raised
RationaleCallFailed ==
    /\ calls # <<>>
    /\ calls[Len(calls)].stage = "rationale_generation"
    /\ calls[Len(calls)].raised

\* C23: when the action list is non-empty and the rationale call fails, the
\* stage recovers with a fixed message: after it the state holds a rationale
\* text
C23_RationaleAlwaysSet ==
    (pc = "END" /\ RationaleCallFailed) => Decision.rationale # NoneStr

\* an adapt_plan call that returned its response
AdaptPlanReturned ==
    /\ last.op = "adapt_plan"
    /\ last.error = NoneStr

\* C24: an adapt_plan call that returns has run feedback_analysis,
\* metrics_calculation, adaptation_decision and rationale_generation, each
\* once and in that order
C24_AdaptPlanRunsStages == AdaptPlanReturned => trace = AdaptationStages

-----------------------------------------------------------------------------
(* The engine's API over a store of two users (SpecStore): generate_plan,  *)
(* adapt_plan, log_workout and get_plan in any order.                      *)

MaxStoreLogs == 1

\* get_plan without the ownership test
get_plan_unchecked(plan_id, user_id) == get_workout_plan(plan_id)

\* WorkoutEngine.get_plan
get_plan(plan_id, user_id) ==
    LET plan == get_workout_plan(plan_id) IN
    IF plan # Nil /\ plan.user_id = user_id THEN plan ELSE Nil

\* GET /api/plans/{plan_id} -> WorkoutEngine.get_plan(plan_id, current_user)
GetPlan(plan_id, user_id) ==
    /\ pc = "idle"
    /\ last' = [op |-> "get_plan", plan_id |-> plan_id, user_id |-> user_id,
                result |-> get_plan(plan_id, user_id)]
    /\ UNCHANGED <<users, workout_logs, workout_plans, uuid_counter, clock,
                   llm_calls, calls, state, pc, trace>>

\* POST /api/logs -> WorkoutEngine.log_workout(user_id, log_data); the log
\* id is a fresh uuid
LogWorkout(user_id, plan_id, session_rpe) ==
    /\ pc = "idle"
    /\ Len(workout_logs) < MaxStoreLogs
    /\ workout_logs' = Append(workout_logs,
            WorkoutLog(Len(workout_logs) + 1, user_id, plan_id, session_rpe))
    /\ last' = [op |-> "log_workout", user_id |-> user_id,
                log_id |-> Len(workout_logs) + 1]
    /\ UNCHANGED <<users, workout_plans, uuid_counter, clock, llm_calls, calls,
                   state, pc, trace>>

\* both users have saved a profile
InitStore ==
    /\ users = [u \in Users |->
                  IF u = "u1"
                  THEN UserProfile(u, "intermediate",
                                   {"dumbbells", "resistance_bands"}, 45)
                  ELSE UserProfile(u, "beginner", {"bodyweight"}, 15)]
    /\ workout_plans = <<>>
    /\ workout_logs = <<>>
    /\ uuid_counter = 0
    /\ clock = 0
    /\ llm_calls = 0
    /\ last = [op |-> "none"]
    /\ calls = <<>>
    /\ state = WorkoutState(Nil, 1)
    /\ pc = "idle"
    /\ trace = <<>>

\* the model fails, or replies the five-day plan
StoreReplies ==
    { Reply(TRUE, -1, 0, NotJson),
      Reply(FALSE, 0, 9, JsonObject("list", FiveDayReply)) }

NextStore ==
    \/ \E u \in Users, r \in StoreReplies : GeneratePlan(u, 1, r)
    \/ \E u \in Users, r \in StoreReplies : AdaptPlan(u, 1, r)
    \/ \E u \in Users, id \in DOMAIN workout_plans : LogWorkout(u, id, 7)
    \/ \E u \in Users, id \in 1..(MaxPlans + 1) : GetPlan(id, u)

SpecStore == InitStore /\ [][NextStore]_vars

-----------------------------------------------------------------------------
(* Properties of the store (SpecStore) *)

\* C25: get_plan(plan_id, user_id) returns a plan only if the stored plan's
\* owner is user_id, and returns absent for a stored plan of another user
C25_GetPlanOwnerOnly ==
    last.op = "get_plan" =>
        /\ last.result # Nil =>
             /\ last.plan_id \in DOMAIN workout_plans
             /\ workout_plans[last.plan_id].user_id = last.user_id
             /\ last.result.plan_id = last.plan_id
             /\ last.result.user_id = last.user_id
        /\ (/\ last.plan_id \in DOMAIN workout_plans
            /\ workout_plans[last.plan_id].user_id # last.user_id)
             => last.result = Nil

\* a stored plan was asked for by the other user, after a log was saved for
\* it, and nothing was returned
C25_Witness ==
    /\ last.op = "get_plan"
    /\ last.plan_id \in DOMAIN workout_plans
    /\ workout_plans[last.plan_id].user_id # last.user_id
    /\ workout_logs # <<>>
    /\ last.result = Nil

StoredPlansKept ==
    /\ \A id \in DOMAIN workout_plans :
         /\ id \in DOMAIN workout_plans'
         /\ workout_plans'[id] = workout_plans[id]
    /\ (last'.op = "adapt_plan" /\ last' # last /\ last'.error = NoneStr) =>
         /\ last'.reply.next_plan_id \notin DOMAIN workout_plans
         /\ DOMAIN workout_plans'
              = DOMAIN workout_plans \cup {last'.reply.next_plan_id}
         /\ workout_plans'[last'.reply.next_plan_id].week_number
              = last'.week_number + 1
         /\ workout_plans'[last'.reply.next_plan_id].user_id = last'.user_id

\* C26: a stored plan is never changed by later generate_plan and adapt_plan
\* calls, and adapt_plan(user, N) adds a plan with a fresh id and week N + 1
\* whose id is the returned next_plan_id
C26_PersistedPlansImmutable == [][StoredPlansKept]_vars

\* adapt_plan has added the plan of week 2 next to the same user's stored
\* plan of week 2
C26_Witness ==
    /\ last.op = "adapt_plan"
    /\ last.error = NoneStr
    /\ \E id \in DOMAIN workout_plans :
         /\ id # last.reply.next_plan_id
         /\ workout_plans[id].user_id = last.user_id
         /\ workout_plans[id].week_number = last.week_number + 1

-----------------------------------------------------------------------------
(* Two generate_plan or adapt_plan calls in flight at once (SpecConc).     *)
(* The event loop switches between them at the awaits: the two lookups of  *)
(* adapt_plan, and the profile lookup, the model call and the plan save of *)
(* generate_plan.  Here state and pc are functions of the run: state[r]    *)
(* holds the locals of run r, pc[r] its position, and trace lists the runs *)
(* in the order of their saves.                                            *)

RunIds == {"r1", "r2"}

\* the locals of generate_plan(user_id, week_number) before its first await
RunLocals(user_id, week_number) ==
    [user_id |-> user_id, week_number |-> week_number, profile |-> Nil,
     response |-> Nil, plan |-> Nil]

InitConc ==
    /\ \E p \in {Nil, UserProfile("u2", "beginner", {"bodyweight"}, 15)} :
          users = [u \in Users |->
                     IF u = "u1"
                     THEN UserProfile(u, "intermediate",
                                      {"dumbbells", "resistance_bands"}, 45)
                     ELSE p]
    /\ workout_plans = <<>>
    /\ workout_logs = <<>>
    /\ uuid_counter = 0
    /\ clock = 0
    /\ llm_calls = 0
    /\ last = [op |-> "none"]
    /\ calls = <<>>
    /\ state \in [RunIds -> { RunLocals(u, w) : u \in Users, w \in Weeks }]
    /\ pc \in [RunIds -> {"start", "adapt"}]
    /\ trace = <<>>

\* adapt_plan: profile = await self.db.get_user_profile(user_id)
AdaptLoadProfile(r) ==
    /\ pc[r] = "adapt"
    /\ state' = [state EXCEPT ![r].profile = get_user_profile(state[r].user_id)]
    /\ pc' = [pc EXCEPT ![r] = "adapt_logs"]
    /\ UNCHANGED <<users, workout_logs, workout_plans, uuid_counter, clock,
                   llm_calls, last, calls, trace>>

\* adapt_plan: logs = await self.db.get_week_logs(user_id, week_number),
\* the state object that is built and dropped, and the entry into
\* generate_plan(user_id, week_number + 1)
AdaptLoadLogs(r) ==
    /\ pc[r] = "adapt_logs"
    /\ state' = [state EXCEPT ![r].week_number = state[r].week_number + 1,
                              ![r].profile = Nil]
    /\ pc' = [pc EXCEPT ![r] = "start"]
    /\ UNCHANGED <<users, workout_logs, workout_plans, uuid_counter, clock,
                   llm_calls, last, calls, trace>>

\* profile = await self.db.get_user_profile(user_id), and the ValueError
\* when there is none
LoadProfile(r) ==
    /\ pc[r] = "start"
    /\ LET profile == get_user_profile(state[r].user_id) IN
         /\ state' = [state EXCEPT ![r].profile = profile]
         /\ pc' = [pc EXCEPT ![r] = IF profile = Nil THEN "raised"
                                    ELSE "model_call"]
    /\ UNCHANGED <<users, workout_logs, workout_plans, uuid_counter, clock,
                   llm_calls, last, calls, trace>>

\* the await of llm.ainvoke ends: the reply is parsed into a plan, or the
\* template plan is built, up to the await of the save
ModelReturns(r, response) ==
    /\ pc[r] = "model_call"
    /\ LET result == generate_plan(state[r].profile, state[r].week_number,
                                   response, uuid_counter + 1, clock) IN
         /\ state' = [state EXCEPT ![r].response = response,
                                   ![r].plan = result.plan]
         /\ llm_calls' = llm_calls + result.llm_calls
    /\ uuid_counter' = uuid_counter + 1
    /\ clock' = clock + 1
    /\ pc' = [pc EXCEPT ![r] = "save"]
    /\ UNCHANGED <<users, workout_logs, workout_plans, last, calls, trace>>

\* await self.db.save_workout_plan(plan); return plan
SavePlan(r) ==
    /\ pc[r] = "save"
    /\ workout_plans' = save_workout_plan(workout_plans, state[r].plan)
    /\ pc' = [pc EXCEPT ![r] = "done"]
    /\ trace' = Append(trace, r)
    /\ UNCHANGED <<users, workout_logs, uuid_counter, clock, llm_calls, last,
                   calls, state>>

NextConc ==
    \/ \E r \in RunIds : AdaptLoadProfile(r)
    \/ \E r \in RunIds : AdaptLoadLogs(r)
    \/ \E r \in RunIds : LoadProfile(r)
    \/ \E r \in RunIds, response \in StoreReplies : ModelReturns(r, response)
    \/ \E r \in RunIds : SavePlan(r)

SpecConc == InitConc /\ [][NextConc]_vars

-----------------------------------------------------------------------------
(* Properties of concurrent runs (SpecConc) *)

DifferentUsers == state["r1"].user_id # state["r2"].user_id

\* what run r holds and has stored is what generate_plan gives for its user,
\* week and reply when it runs alone with the same plan id and timestamp
AsRunAlone(r) ==
    LET alone == generate_plan(get_user_profile(state[r].user_id),
                               state[r].week_number, state[r].response,
                               state[r].plan.plan_id,
                               state[r].plan.created_at).plan
    IN /\ state[r].plan = alone
       /\ alone.user_id = state[r].user_id
       /\ alone.plan_id \in DOMAIN workout_plans
       /\ get_workout_plan(alone.plan_id) = alone

\* a step of run r touches nothing of the other run: not its locals, not
\* its position, none of its stored plans, no log
LeavesOtherRunAlone(r) ==
    \A q \in RunIds \ {r} :
        /\ state'[q] = state[q]
        /\ pc'[q] = pc[q]
        /\ workout_logs' = workout_logs
        /\ \A id \in DOMAIN workout_plans :
             workout_plans[id].user_id = state[q].user_id =>
                /\ id \in DOMAIN workout_plans'
                /\ workout_plans'[id] = workout_plans[id]

RunsOfDifferentUsersIndependent ==
    DifferentUsers =>
        \A r \in RunIds :
            /\ pc'[r] # pc[r] => LeavesOtherRunAlone(r)
            /\ pc'[r] = "done" => AsRunAlone(r)'
            /\ pc'[r] = "raised"
                 <=> (pc'[r] \notin {"adapt", "adapt_logs", "start"}
                      /\ users[state[r].user_id] = Nil)

\* C27: two runs for different users, interleaved at the awaits of the
\* profile lookup, the model call and the save, each persist the plan and
\* end in the state they reach alone (up to plan id and timestamp), and
\* neither touches the other's locals, plans or logs
C27_DifferentUsersIndependent == [][RunsOfDifferentUsersIndependent]_vars

\* both runs are done; the run that got its reply last saved first
C27_Witness ==
    /\ DifferentUsers
    /\ \A r \in RunIds : pc[r] = "done"
    /\ \E r, q \in RunIds :
         /\ state[r].plan.plan_id > state[q].plan.plan_id
         /\ state[r].response # state[q].response
    /\ Cardinality(DOMAIN workout_plans) = 2

-----------------------------------------------------------------------------
(* Properties of the synthesised plans (Spec) and of the model calls of a  *)
(* generation run (SpecGraph)                                              *)

\* equipment_required of the sample exercises table, by exercise id
equipment_required(exercise_id) ==
    IF exercise_id = "dumbbell_rows" THEN {"dumbbells"} ELSE {"bodyweight"}

\* the equipment the two names of the template's row exercise stand for
name_equipment(exercise_name) ==
    CASE exercise_name = "Dumbbell Rows" -> {"dumbbells"}
      [] exercise_name = "Resistance Band Rows" -> {"resistance_bands"}
      [] OTHER -> {"bodyweight"}

\* C28: every day of a plan generate_plan produced, from the model's reply
\* or from the template, has an estimated duration within the profile's
\* session duration
C28_DaysWithinSessionDuration ==
    GeneratePlanReturned =>
        \A i \in DOMAIN last.plan.days :
            last.plan.days[i].estimated_duration
                <= last.profile.schedule.session_duration

\* C29: every exercise of a plan generate_plan produced needs only equipment
\* the profile declares (bodyweight aside), by its id and by its name, and
\* the template's row exercise is named Dumbbell Rows iff the profile
\* declares dumbbells
C29_OnlyDeclaredEquipment ==
    GeneratePlanReturned =>
        \A i \in DOMAIN last.plan.days :
            \A j \in DOMAIN last.plan.days[i].exercises :
                LET ex == last.plan.days[i].exercises[j] IN
                /\ equipment_required(ex.exercise_id)
                     \subseteq last.profile.equipment \cup {"bodyweight"}
                /\ name_equipment(ex.exercise_name)
                     \subseteq last.profile.equipment \cup {"bodyweight"}
                /\ ex.exercise_id = "dumbbell_rows" =>
                     (ex.exercise_name = "Dumbbell Rows"
                        <=> "dumbbells" \in last.profile.equipment)

OneModelCallBeforeSave ==
    /\ llm_calls' <= 1
    /\ pc = "plan_generation" =>
         /\ llm_calls = 0
         /\ llm_calls' = (IF state.user_profile = Nil THEN 0 ELSE 1)
    /\ pc \in {"profile_intake", "plan_validation"} => llm_calls' = llm_calls
    /\ workout_plans' # workout_plans =>
         /\ pc = "plan_validation"
         /\ trace = <<"profile_intake", "plan_generation">>
         /\ llm_calls = 1

-----------------------------------------------------------------------------
(* The repository's queries (SpecQueries): get_current_plan and            *)
(* get_week_logs after generate_plan, adapt_plan and log_workout of two    *)
(* users in any order.                                                     *)

\* the user's rows of workout_plans
plans_of(user_id) ==
    { id \in DOMAIN workout_plans : workout_plans[id].user_id = user_id }

\* row a comes no later than row b in ORDER BY week_number DESC,
\* created_at DESC
orders_first(a, b) ==
    \/ a.week_number > b.week_number
    \/ a.week_number = b.week_number /\ a.created_at >= b.created_at

\* get_current_plan that takes the newest row whatever its week
get_current_plan_newest(user_id) ==
    IF plans_of(user_id) = {} THEN Nil
    ELSE get_workout_plan(
            CHOOSE id \in plans_of(user_id) :
                \A other \in plans_of(user_id) :
                    workout_plans[id].created_at
                        >= workout_plans[other].created_at)

\* DatabaseManager.get_current_plan: the first row of the user in
\* ORDER BY week_number DESC, created_at DESC, or None
get_current_plan(user_id) ==
    IF plans_of(user_id) = {} THEN Nil
    ELSE get_workout_plan(
            CHOOSE id \in plans_of(user_id) :
                \A other \in plans_of(user_id) :
                    orders_first(workout_plans[id], workout_plans[other]))

\* GET /api/plans/user/{user_id}/current -> WorkoutEngine.get_current_plan
GetCurrentPlan(user_id) ==
    /\ pc = "idle"
    /\ last' = [op |-> "get_current_plan", user_id |-> user_id,
                result |-> get_current_plan(user_id)]
    /\ UNCHANGED <<users, workout_logs, workout_plans, uuid_counter, clock,
                   llm_calls, calls, state, pc, trace>>

\* GET /api/logs/user/{user_id}/week/{week_number} ->
\* WorkoutEngine.get_week_logs
GetWeekLogs(user_id, week_number) ==
    /\ pc = "idle"
    /\ last' = [op |-> "get_week_logs", user_id |-> user_id,
                week_number |-> week_number,
                result |-> get_week_logs(user_id, week_number)]
    /\ UNCHANGED <<users, workout_logs, workout_plans, uuid_counter, clock,
                   llm_calls, calls, state, pc, trace>>

\* the model call fails: the plans are the template
QueryReplies == { Reply(TRUE, -1, 0, NotJson) }

\* the plan ids a client logs for: the stored ones, and one no plan has
LoggedPlanIds == DOMAIN workout_plans \cup {0}

NextQueries ==
    \/ \E u \in Users, r \in QueryReplies : GeneratePlan(u, 1, r)
    \/ \E u \in Users, r \in QueryReplies : AdaptPlan(u, 1, r)
    \/ \E u \in Users, id \in LoggedPlanIds : LogWorkout(u, id, 7)
    \/ \E u \in Users : GetCurrentPlan(u)
    \/ \E u \in Users, w \in {1, 2} : GetWeekLogs(u, w)

SpecQueries == InitStore /\ [][NextQueries]_vars

-----------------------------------------------------------------------------
(* Properties of the queries (SpecQueries) *)

\* C31: get_current_plan(user) returns absent iff the user has no stored
\* plan, and otherwise the user's stored plan of the greatest week number,
\* among those the one created last; never another user's plan
C31_CurrentPlanIsLatestWeek ==
    last.op = "get_current_plan" =>
        LET mine == { id \in DOMAIN workout_plans :
                        workout_plans[id].user_id = last.user_id }
        IN /\ last.result = Nil <=> mine = {}
           /\ last.result # Nil =>
                /\ last.result.plan_id \in mine
                /\ last.result.user_id = last.user_id
                /\ last.result.days = workout_plans[last.result.plan_id].days
                /\ \A id \in mine :
                     \/ workout_plans[id].week_number
                          < last.result.week_number
                     \/ /\ workout_plans[id].week_number
                             = last.result.week_number
                        /\ workout_plans[id].created_at
                             <= last.result.created_at

\* the user's plan of week 2 was returned although the user's plan of week
\* 1 was created after it
C31_Witness ==
    /\ last.op = "get_current_plan"
    /\ last.result # Nil
    /\ \E id \in DOMAIN workout_plans :
         /\ workout_plans[id].user_id = last.user_id
         /\ workout_plans[id].week_number < last.result.week_number
         /\ workout_plans[id].created_at > last.result.created_at

\* log row i is one get_week_logs(user, week) has to return
InWeek(i, user_id, week_number) ==
    /\ workout_logs[i].user_id = user_id
    /\ workout_logs[i].plan_id \in DOMAIN workout_plans
    /\ workout_plans[workout_logs[i].plan_id].week_number = week_number

\* C32: get_week_logs(user, week) returns exactly the stored logs of the
\* user whose plan has week number week, so a saved log is returned for its
\* plan's week and for no other
C32_WeekLogsExact ==
    last.op = "get_week_logs" =>
        /\ \A i \in DOMAIN workout_logs :
             InWeek(i, last.user_id, last.week_number)
               <=> \E k \in DOMAIN last.result : last.result[k] = workout_logs[i]
        /\ \A k \in DOMAIN last.result :
             \E i \in DOMAIN workout_logs : last.result[k] = workout_logs[i]
        /\ \A k, l \in DOMAIN last.result :
             k # l => last.result[k].log_id # last.result[l].log_id

\* the user has a log for a plan of week 2, and the lookup for week 1
\* returned none
C32_Witness ==
    /\ last.op = "get_week_logs"
    /\ last.week_number = 1
    /\ last.result = <<>>
    /\ \E i \in DOMAIN workout_logs : InWeek(i, last.user_id, 2)

-----------------------------------------------------------------------------
(* Properties of the stages' bookkeeping (SpecAdapt, SpecGraph) *)

\* a state that holds nothing but the given metrics and parsed insights
BareState(metrics, feedback_analysis) ==
    [WorkoutState(Nil, 1) EXCEPT
        !.metrics = metrics,
        !.feedback_analysis =
            FeedbackAnalysis(NoneStr, feedback_analysis.has_insights,
                             feedback_analysis.insights)]

DecisionFromMetricsAndInsights ==
    (pc = "adaptation_decision" /\ pc' # pc) =>
        /\ llm_calls' = llm_calls
        /\ calls' = calls
        /\ state'.adaptation_context.decided =>
             /\ state'.adaptation_context =
                  adaptation_decision_node(
                      BareState(state.metrics, state.feedback_analysis)
                  ).state.adaptation_context
             /\ state'.adaptation_context.reasoning =
                  build_adaptation_reasoning(state.metrics, EmptyInsights)

\* C33: the adaptation decision makes no model call; its action list and
\* reasoning summary are those of a state that shares only the metrics and
\* the insights, and the summary is the one of the metrics alone
C33_DecisionDeterministic == [][DecisionFromMetricsAndInsights]_vars

\* a decision was taken on metrics of low adherence and on insights that
\* report pain
C33_Witness ==
    /\ pc = "rationale_generation"
    /\ Decision.decided
    /\ MetricsSet
    /\ Chosen("reduce_volume")
    /\ Chosen("exercise_substitution")
    /\ state.user_profile # Nil
    /\ state.current_plan # Nil

\* a step of one of the three generation stages
GenerationStageStep ==
    /\ pc \in {"profile_intake", "plan_generation", "plan_validation"}
    /\ pc' # pc

TagFollowsSuccess ==
    /\ GenerationStageStep =>
         /\ state'.error_context # state.error_context
              => state'.workflow_stage = state.workflow_stage
         /\ state'.workflow_stage # state.workflow_stage
              => /\ state'.error_context = state.error_context
                 /\ pc' # "raised"
    /\ state'.workflow_stage = "plan_validated" =>
         /\ state'.current_plan # Nil
         /\ state'.current_plan.plan_id \in DOMAIN workout_plans'
         /\ workout_plans'[state'.current_plan.plan_id] = state'.current_plan
         /\ GenerationStageStep =>
              state'.current_plan.plan_id \notin DOMAIN workout_plans

\* C34: a generation stage that records an error leaves the stage tag as it
\* was, a stage that moves the tag records none, and whenever the tag is
\* plan_validated the state's plan is stored, under an id that was not
\* stored before the validation step of this run
C34_TagFollowsSuccess == [][TagFollowsSuccess]_vars

\* a run ended validated after its generation stage had recorded an error
\* and left the tag at profile_complete
C34_Witness ==
    /\ pc = "END"
    /\ state.workflow_stage = "plan_validated"
    /\ state.error_context = "Plan generation error"
    /\ IsPersisted(state.current_plan)

\* the note a failing adaptation stage writes
StageMessage(stage) ==
    CASE stage = "feedback_analysis" -> "Feedback analysis error"
      [] stage = "metrics_calculation" -> "Metrics calculation error"
      [] stage = "adaptation_decision" -> "Adaptation decision error"
      [] stage = "rationale_generation" -> "Rationale generation error"

\* the tag a completing adaptation stage writes
StageTag(stage) ==
    CASE stage = "feedback_analysis" -> "feedback_analyzed"
      [] stage = "metrics_calculation" -> "metrics_calculated"
      [] stage = "adaptation_decision" -> "adaptation_decided"
      [] stage = "rationale_generation" -> "rationale_generated"

ErrorNoteKept ==
    (pc \in {"feedback_analysis", "metrics_calculation",
             "adaptation_decision", "rationale_generation"} /\ pc' # pc) =>
        /\ state.error_context # NoneStr => state'.error_context # NoneStr
        /\ IF state'.workflow_stage = StageTag(pc)
           THEN state'.error_context = state.error_context
           ELSE state'.error_context = StageMessage(pc)

GenerationLeavesPlan ==
    (pc = "plan_generation" /\ pc' # pc /\ state.user_profile # Nil) =>
        /\ pc' = "plan_validation"
        /\ state'.current_plan # Nil
        /\ state'.current_plan.user_id = state.user_profile.user_id
        /\ state'.current_plan.week_number = state.current_week
        /\ \/ /\ state'.workflow_stage = "plan_generated"
              /\ state'.error_context = state.error_context
              /\ \E r \in LLMReplies :
                   /\ ~r.raises
                   /\ parse_plan_response(r).days_kind # "missing"
                   /\ days_validate(parse_plan_response(r))
                   /\ state'.current_plan.days =
                        [i \in DOMAIN parse_plan_response(r).days |->
                            model_validate(parse_plan_response(r).days[i])]
           \/ /\ state'.workflow_stage = state.workflow_stage
              /\ state'.error_context = "Plan generation error"
              /\ state'.current_plan.days # <<>>
              /\ \A i \in DOMAIN state'.current_plan.days :
                   state'.current_plan.days[i].exercises # <<>>

WeekLogCount ==
    Cardinality({ i \in DOMAIN workout_logs :
                    InWeek(i, state.user_profile.user_id, state.current_week) })

\* the planned-session count of the state
PlannedCount ==
    IF state.current_plan = Nil THEN DefaultPlannedSessions
    ELSE Len(state.current_plan.days)

\* the metrics stage fails: no metrics, the note, the tag as it was
MetricsStageFails ==
    /\ state'.metrics = state.metrics
    /\ state'.error_context = "Metrics calculation error"
    /\ state'.workflow_stage = state.workflow_stage
    /\ pc' = "adaptation_decision"

\* the decision that follows a failed metrics stage takes no action on
\* metrics
NoMetricActionAfterFailure ==
    (pc = "adaptation_decision" /\ pc' # pc
        /\ state.error_context = "Metrics calculation error") =>
        \A i \in DOMAIN state'.adaptation_context.adaptations :
            state'.adaptation_context.adaptations[i]
                \notin {"reduce_volume", "deload_intensity"}

MetricsFailOnExcessOrNoDays ==
    /\ (pc = "metrics_calculation" /\ pc' # pc /\ state.user_profile # Nil
           /\ (WeekLogCount > PlannedCount \/ PlannedCount = 0))
         => MetricsStageFails
    /\ NoMetricActionAfterFailure

\* C37 as stated: with more logs than planned sessions, or with a current
\* plan of zero days, metrics_calculation sets no metrics, records the note
\* and leaves the tag, and no metric-based action follows
C37_Original == [][MetricsFailOnExcessOrNoDays]_vars

MetricsFailOnExcess ==
    /\ (pc = "metrics_calculation" /\ pc' # pc /\ state.user_profile # Nil
           /\ WeekLogCount > PlannedCount)
         => MetricsStageFails
    /\ NoMetricActionAfterFailure

\* C37 amended: with more logs than planned sessions, which for a plan of zero
\* days means at least one log, metrics_calculation sets no metrics, records
\* the note and leaves the tag, and no metric-based action follows
C37_MetricsFailOnExcess == [][MetricsFailOnExcess]_vars

\* four logs were found for a plan of three days and the decision was taken
\* without metrics
C37_Witness ==
    /\ pc = "rationale_generation"
    /\ Decision.decided
    /\ ~MetricsSet
    /\ state.error_context = "Metrics calculation error"
    /\ state.workflow_stage = "adaptation_decided"
    /\ last.op = "metrics_calculation"
    /\ state.current_plan # Nil
    /\ Len(state.current_plan.days) = 3
    /\ Len(last.logs) = 4

FailedDecisionDegrades ==
    /\ (pc = "adaptation_decision" /\ pc' # pc
           /\ state'.workflow_stage # "adaptation_decided") =>
          /\ state'.error_context = "Adaptation decision error"
          /\ ~state'.adaptation_context.decided
          /\ state'.adaptation_context.adaptations = <<>>
          /\ pc' = "rationale_generation"
    /\ (pc = "rationale_generation" /\ pc' # pc
           /\ state.workflow_stage # "adaptation_decided") =>
          /\ llm_calls' = llm_calls
          /\ calls' = calls
          /\ state'.adaptation_context.rationale = CongratulatoryMessage
          /\ state'.workflow_stage = "rationale_generated"
          /\ state'.error_context = "Adaptation decision error"

\* C38: a failed adaptation_decision leaves the adaptation context without
\* an action list, and the rationale_generation that follows makes no model
\* call and writes the fixed congratulatory message, the error note of the
\* decision still set
C38_FailedDecisionDegrades == [][FailedDecisionDegrades]_vars

\* the insights were a list, the metrics showed two sessions of five, and
\* the run ended on the fixed message after the one call of the feedback
\* stage
C38_Witness ==
    /\ pc = "END"
    /\ state.error_context = "Adaptation decision error"
    /\ state.adaptation_context.rationale = CongratulatoryMessage
    /\ state.feedback_analysis.has_insights
    /\ ~state.feedback_analysis.insights.is_dict
    /\ MetricsSet
    /\ state.metrics.completed_sessions = 2
    /\ state.metrics.total_planned_sessions = 5
    /\ llm_calls = 1

-----------------------------------------------------------------------------
(* Concurrent runs for one user and week (SpecConc) *)

SameUserAndWeek ==
    /\ state["r1"].user_id = state["r2"].user_id
    /\ state["r1"].week_number = state["r2"].week_number

\* the plan of the two that was built later
BuiltLater ==
    IF state["r1"].plan.created_at > state["r2"].plan.created_at
    THEN state["r1"].plan ELSE state["r2"].plan

\* C39: when two generate_plan or adapt_plan runs for one user and week
\* are both done, the two plans are stored under different ids as they
\* were built, and get_current_plan returns the one whose creation time,
\* set when the plan was built, is the later
C39_BothStoredLatestBuiltCurrent ==
    ((\A r \in RunIds : pc[r] = "done") /\ SameUserAndWeek) =>
        /\ state["r1"].plan.plan_id # state["r2"].plan.plan_id
        /\ \A r \in RunIds :
             /\ state[r].plan.plan_id \in DOMAIN workout_plans
             /\ workout_plans[state[r].plan.plan_id] = state[r].plan
             /\ state[r].plan.user_id = state[r].user_id
             /\ state[r].plan.week_number = state[r].week_number
        /\ state["r1"].plan.created_at # state["r2"].plan.created_at
        /\ get_current_plan(state["r1"].user_id) = BuiltLater

\* two adapt_plan runs of one user for the last week are done; the plan
\* built later was saved first, and it is the current plan
C39_Witness ==
    /\ \A r \in RunIds : pc[r] = "done"
    /\ SameUserAndWeek
    /\ state["r1"].week_number = MaxWeek + 1
    /\ Len(trace) = 2
    /\ state[trace[1]].plan = BuiltLater
    /\ get_current_plan(state["r1"].user_id) = state[trace[1]].plan
    /\ state["r1"].plan.created_at # state["r2"].plan.created_at

====
